---------------------------- MODULE Spec2Model ----------------------------
(***************************************************************************)
(* Model of src/src/services/conciliacao.service.js: the deterministic     *)
(* evidence-extraction core of the vendor reconciliation service           *)
(* (normalizarTexto, fornecedorExisteNaRazao, extrairLinhasFornecedor,     *)
(* parseValorMonetario, montarIndicadoresFornecedor) and the control flow  *)
(* of realizarConciliacao around it.                                       *)
(*                                                                         *)
(* Representation.                                                         *)
(*  - A JavaScript string is a sequence of characters; a character is a    *)
(*    UTF-16 code unit.  A printable ASCII character is a one-character    *)
(*    TLA+ string ("a", " "), as are "\t", "\n", "\f" and "\r"; every      *)
(*    other code unit is named by its value in hexadecimal: "U+00E9" is    *)
(*    e with acute, "U+0301" the combining acute accent.  A character      *)
(*    outside the Basic Multilingual Plane is two code units, a high and   *)
(*    a low surrogate: U+1D15E is "U+D834", "U+DD5E".                      *)
(*  - The JavaScript value null, where a string is expected, is NULL: a    *)
(*    one-element sequence holding the word "null", which is no character  *)
(*    and therefore differs from every string.                             *)
(*  - A Number obtained from a currency token is an integer count of       *)
(*    cents; c stands for the IEEE-754 double nearest to c/100, which is   *)
(*    what Number.parseFloat returns.  The double operations of the code   *)
(*    (subtraction, comparison with 0.1, addition, toFixed) are computed   *)
(*    exactly on that double: see the section on doubles.                  *)
(***************************************************************************)
EXTENDS Integers, Sequences, FiniteSets, TLC

VARIABLES
    pc,          \* position of the call being modelled
    fornecedor,  \* argument: vendor name (a string or NULL)
    simulacao,   \* argument of realizarConciliacao (false when not given)
    texto,       \* argument: one raw document text
    textos,      \* argument: textosPorRelatorio, a mapping key -> raw text
    relatoriosProcessados, \* argument of realizarConciliacao
    norm1,       \* normalizarTexto(texto)
    norm2,       \* normalizarTexto(normalizarTexto(texto))
    presente,    \* result of fornecedorExisteNaRazao
    linhas,      \* result of extrairLinhasFornecedor
    indic,       \* result of montarIndicadoresFornecedor
    cliente,     \* realizarConciliacao: is OPENAI_API_KEY configured
    iaResposta,  \* realizarConciliacao: what the reasoning service will answer
    log,         \* realizarConciliacao: the calls made so far, in order
    resultado    \* realizarConciliacao: the returned object

vars == <<pc, fornecedor, simulacao, texto, textos, relatoriosProcessados, norm1, norm2,
          presente, linhas, indic, cliente, iaResposta, log, resultado>>

NULL == <<"null">>

\* !x for a string-or-null x: null and "" are the falsy ones.
Falsy(x) == x = NULL \/ x = <<>>

-----------------------------------------------------------------------------
(* Character classes of the regular expressions used by the code.          *)

Digitos == {"0", "1", "2", "3", "4", "5", "6", "7", "8", "9"}

AlfaMin == <<"a", "b", "c", "d", "e", "f", "g", "h", "i", "j", "k", "l", "m",
             "n", "o", "p", "q", "r", "s", "t", "u", "v", "w", "x", "y", "z">>

AlfaMai == <<"A", "B", "C", "D", "E", "F", "G", "H", "I", "J", "K", "L", "M",
             "N", "O", "P", "Q", "R", "S", "T", "U", "V", "W", "X", "Y", "Z">>

Range(f) == {f[i] : i \in DOMAIN f}

\* \w : [A-Za-z0-9_]
PalavraChars == Digitos \cup Range(AlfaMin) \cup Range(AlfaMai) \cup {"_"}

\* \s and the characters String.prototype.trim removes: WhiteSpace (TAB, VT,
\* FF, SP, NBSP, ZWNBSP and the space separators) and LineTerminator (LF, CR,
\* LS, PS)
EspacoChars ==
    {" ", "\t", "\n", "\r", "\f", "U+000B", "U+00A0", "U+1680",
     "U+2000", "U+2001", "U+2002", "U+2003", "U+2004", "U+2005", "U+2006",
     "U+2007", "U+2008", "U+2009", "U+200A", "U+2028", "U+2029", "U+202F",
     "U+205F", "U+3000", "U+FEFF"}

\* [\r\n]
QuebraChars == {"\r", "\n"}

-----------------------------------------------------------------------------
(* Unicode data used by String.prototype.normalize("NFD"), which works on  *)
(* code points: a character of the Basic Multilingual Plane is one UTF-16  *)
(* code unit, any other is a high surrogate followed by a low surrogate.   *)
(* The tables follow Unicode 17.0.                                         *)

\* the characters written as themselves: printable ASCII (but the grave
\* accent, which is "U+0060") and the escapes
AsciiChars ==
    {" ", "!", "\"", "#", "$", "%", "&", "'", "(", ")", "*", "+", ",", "-",
     ".", "/", "0", "1", "2", "3", "4", "5", "6", "7", "8", "9", ":", ";",
     "<", "=", ">", "?", "@", "A", "B", "C", "D", "E", "F", "G", "H", "I",
     "J", "K", "L", "M", "N", "O", "P", "Q", "R", "S", "T", "U", "V", "W",
     "X", "Y", "Z", "[", "\\", "]", "^", "_", "a", "b", "c", "d", "e", "f",
     "g", "h", "i", "j", "k", "l", "m", "n", "o", "p", "q", "r", "s", "t",
     "u", "v", "w", "x", "y", "z", "{", "|", "}", "~", "\t", "\n", "\f", "\r"}

HexDigitos == <<"0", "1", "2", "3", "4", "5", "6", "7",
                "8", "9", "A", "B", "C", "D", "E", "F">>

\* the name of the code unit cp, for the named code units
NomeDe(cp) ==
    "U+" \o HexDigitos[((cp \div 4096) % 16) + 1]
         \o HexDigitos[((cp \div 256) % 16) + 1]
         \o HexDigitos[((cp \div 16) % 16) + 1]
         \o HexDigitos[(cp % 16) + 1]

\* the high (leading) and the low (trailing) surrogates
AltosSubstitutos == {NomeDe(cp) : cp \in 55296..56319}

BaixosSubstitutos == {NomeDe(cp) : cp \in 56320..57343}

\* a high surrogate a with a low surrogate b after it
ParSubstituto(a, b) == a \in AltosSubstitutos /\ b \in BaixosSubstitutos

\* the code point that starts at position i of s, as the sequence of its
\* code units, and whether a code point starts there: a high surrogate
\* with the low surrogate after it is one code point, every other code
\* unit (a lone surrogate too) is one by itself
PontoEm(s, i) ==
    [ p    |-> IF i < Len(s) /\ ParSubstituto(s[i], s[i + 1])
               THEN <<s[i], s[i + 1]>>
               ELSE <<s[i]>>,
      fica |-> ~(i > 1 /\ ParSubstituto(s[i - 1], s[i])) ]

SoPontos(ficam) == [i \in 1..Len(ficam) |-> ficam[i].p]

\* the code points of a string, in order
Pontos(s) ==
    SoPontos(SelectSeq([i \in 1..Len(s) |-> PontoEm(s, i)], LAMBDA m : m.fica))

\* the key of a code point in the tables: the name of its code unit, or
\* the names of its two surrogates one after the other
Chave(p) == IF Len(p) = 2 THEN p[1] \o p[2] ELSE p[1]

RECURSIVE Junta(_)
\* the concatenation of a sequence of sequences
Junta(ss) ==
    IF Len(ss) = 0 THEN <<>>
    ELSE IF Len(ss) = 1 THEN ss[1]
    ELSE Junta(SubSeq(ss, 1, Len(ss) \div 2))
             \o Junta(SubSeq(ss, (Len(ss) \div 2) + 1, Len(ss)))

\* Canonical_Combining_Class: each class above 0 with the keys of its
\* characters
ClassesCombinacao ==
    <<
       <<1, {"U+0334", "U+0335", "U+0336", "U+0337", "U+0338", "U+1CD4",
              "U+1CE2", "U+1CE3", "U+1CE4", "U+1CE5", "U+1CE6", "U+1CE7",
              "U+1CE8", "U+20D2", "U+20D3", "U+20D8", "U+20D9", "U+20DA",
              "U+20E5", "U+20E6", "U+20EA", "U+20EB", "U+D802U+DE39",
              "U+D81AU+DEF0", "U+D81AU+DEF1", "U+D81AU+DEF2", "U+D81AU+DEF3",
              "U+D81AU+DEF4", "U+D82FU+DC9E", "U+D834U+DD67", "U+D834U+DD68",
              "U+D834U+DD69"}>>,
       <<6, {"U+D81BU+DFF0", "U+D81BU+DFF1"}>>,
       <<7, {"U+093C", "U+09BC", "U+0A3C", "U+0ABC", "U+0B3C", "U+0C3C",
              "U+0CBC", "U+1037", "U+1B34", "U+1BE6", "U+1C37", "U+A9B3",
              "U+D804U+DCBA", "U+D804U+DD73", "U+D804U+DDCA", "U+D804U+DE36",
              "U+D804U+DEE9", "U+D804U+DF3B", "U+D804U+DF3C", "U+D805U+DC46",
              "U+D805U+DCC3", "U+D805U+DDC0", "U+D805U+DEB7", "U+D806U+DC3A",
              "U+D806U+DD43", "U+D807U+DD42", "U+D83AU+DD4A"}>>,
       <<8, {"U+3099", "U+309A"}>>,
       <<9, {"U+094D", "U+09CD", "U+0A4D", "U+0ACD", "U+0B4D", "U+0BCD",
              "U+0C4D", "U+0CCD", "U+0D3B", "U+0D3C", "U+0D4D", "U+0DCA",
              "U+0E3A", "U+0EBA", "U+0F84", "U+1039", "U+103A", "U+1714",
              "U+1715", "U+1734", "U+17D2", "U+1A60", "U+1B44", "U+1BAA",
              "U+1BAB", "U+1BF2", "U+1BF3", "U+2D7F", "U+A806", "U+A82C",
              "U+A8C4", "U+A953", "U+A9C0", "U+AAF6", "U+ABED",
              "U+D802U+DE3F", "U+D804U+DC46", "U+D804U+DC70", "U+D804U+DC7F",
              "U+D804U+DCB9", "U+D804U+DD33", "U+D804U+DD34", "U+D804U+DDC0",
              "U+D804U+DE35", "U+D804U+DEEA", "U+D804U+DF4D", "U+D804U+DFCE",
              "U+D804U+DFCF", "U+D804U+DFD0", "U+D805U+DC42", "U+D805U+DCC2",
              "U+D805U+DDBF", "U+D805U+DE3F", "U+D805U+DEB6", "U+D805U+DF2B",
              "U+D806U+DC39", "U+D806U+DD3D", "U+D806U+DD3E", "U+D806U+DDE0",
              "U+D806U+DE34", "U+D806U+DE47", "U+D806U+DE99", "U+D807U+DC3F",
              "U+D807U+DD44", "U+D807U+DD45", "U+D807U+DD97", "U+D807U+DF41",
              "U+D807U+DF42", "U+D818U+DD2F"}>>,
       <<10, {"U+05B0"}>>,
       <<11, {"U+05B1"}>>,
       <<12, {"U+05B2"}>>,
       <<13, {"U+05B3"}>>,
       <<14, {"U+05B4"}>>,
       <<15, {"U+05B5"}>>,
       <<16, {"U+05B6"}>>,
       <<17, {"U+05B7"}>>,
       <<18, {"U+05B8", "U+05C7"}>>,
       <<19, {"U+05B9", "U+05BA"}>>,
       <<20, {"U+05BB"}>>,
       <<21, {"U+05BC"}>>,
       <<22, {"U+05BD"}>>,
       <<23, {"U+05BF"}>>,
       <<24, {"U+05C1"}>>,
       <<25, {"U+05C2"}>>,
       <<26, {"U+FB1E"}>>,
       <<27, {"U+064B", "U+08F0"}>>,
       <<28, {"U+064C", "U+08F1"}>>,
       <<29, {"U+064D", "U+08F2"}>>,
       <<30, {"U+0618", "U+064E"}>>,
       <<31, {"U+0619", "U+064F"}>>,
       <<32, {"U+061A", "U+0650"}>>,
       <<33, {"U+0651"}>>,
       <<34, {"U+0652"}>>,
       <<35, {"U+0670"}>>,
       <<36, {"U+0711"}>>,
       <<84, {"U+0C55"}>>,
       <<91, {"U+0C56"}>>,
       <<103, {"U+0E38", "U+0E39"}>>,
       <<107, {"U+0E48", "U+0E49", "U+0E4A", "U+0E4B"}>>,
       <<118, {"U+0EB8", "U+0EB9"}>>,
       <<122, {"U+0EC8", "U+0EC9", "U+0ECA", "U+0ECB"}>>,
       <<129, {"U+0F71"}>>,
       <<130, {"U+0F72", "U+0F7A", "U+0F7B", "U+0F7C", "U+0F7D", "U+0F80"}>>,
       <<132, {"U+0F74"}>>,
       <<202, {"U+0321", "U+0322", "U+0327", "U+0328", "U+1DD0"}>>,
       <<214, {"U+1DCE"}>>,
       <<216, {"U+031B", "U+0F39", "U+D834U+DD65", "U+D834U+DD66",
              "U+D834U+DD6E", "U+D834U+DD6F", "U+D834U+DD70", "U+D834U+DD71",
              "U+D834U+DD72"}>>,
       <<218, {"U+1DFA", "U+302A"}>>,
       <<220, {"U+0316", "U+0317", "U+0318", "U+0319", "U+031C", "U+031D",
              "U+031E", "U+031F", "U+0320", "U+0323", "U+0324", "U+0325",
              "U+0326", "U+0329", "U+032A", "U+032B", "U+032C", "U+032D",
              "U+032E", "U+032F", "U+0330", "U+0331", "U+0332", "U+0333",
              "U+0339", "U+033A", "U+033B", "U+033C", "U+0347", "U+0348",
              "U+0349", "U+034D", "U+034E", "U+0353", "U+0354", "U+0355",
              "U+0356", "U+0359", "U+035A", "U+0591", "U+0596", "U+059B",
              "U+05A2", "U+05A3", "U+05A4", "U+05A5", "U+05A6", "U+05A7",
              "U+05AA", "U+05C5", "U+0655", "U+0656", "U+065C", "U+065F",
              "U+06E3", "U+06EA", "U+06ED", "U+0731", "U+0734", "U+0737",
              "U+0738", "U+0739", "U+073B", "U+073C", "U+073E", "U+0742",
              "U+0744", "U+0746", "U+0748", "U+07F2", "U+07FD", "U+0859",
              "U+085A", "U+085B", "U+0899", "U+089A", "U+089B", "U+08CF",
              "U+08D0", "U+08D1", "U+08D2", "U+08D3", "U+08E3", "U+08E6",
              "U+08E9", "U+08ED", "U+08EE", "U+08EF", "U+08F6", "U+08F9",
              "U+08FA", "U+0952", "U+0F18", "U+0F19", "U+0F35", "U+0F37",
              "U+0FC6", "U+108D", "U+193B", "U+1A18", "U+1A7F", "U+1AB5",
              "U+1AB6", "U+1AB7", "U+1AB8", "U+1AB9", "U+1ABA", "U+1ABD",
              "U+1ABF", "U+1AC0", "U+1AC3", "U+1AC4", "U+1ACA", "U+1ADD",
              "U+1AE6", "U+1B6C", "U+1CD5", "U+1CD6", "U+1CD7", "U+1CD8",
              "U+1CD9", "U+1CDC", "U+1CDD", "U+1CDE", "U+1CDF", "U+1CED",
              "U+1DC2", "U+1DCA", "U+1DCF", "U+1DF9", "U+1DFD", "U+1DFF",
              "U+20E8", "U+20EC", "U+20ED", "U+20EE", "U+20EF", "U+A92B",
              "U+A92C", "U+A92D", "U+AAB4", "U+FE27", "U+FE28", "U+FE29",
              "U+FE2A", "U+FE2B", "U+FE2C", "U+FE2D", "U+D800U+DDFD",
              "U+D800U+DEE0", "U+D802U+DE0D", "U+D802U+DE3A", "U+D802U+DEE6",
              "U+D803U+DEFA", "U+D803U+DEFB", "U+D803U+DEFD", "U+D803U+DEFE",
              "U+D803U+DEFF", "U+D803U+DF46", "U+D803U+DF47", "U+D803U+DF4B",
              "U+D803U+DF4D", "U+D803U+DF4E", "U+D803U+DF4F", "U+D803U+DF50",
              "U+D803U+DF83", "U+D803U+DF85", "U+D834U+DD7B", "U+D834U+DD7C",
              "U+D834U+DD7D", "U+D834U+DD7E", "U+D834U+DD7F", "U+D834U+DD80",
              "U+D834U+DD81", "U+D834U+DD82", "U+D834U+DD8A", "U+D834U+DD8B",
              "U+D839U+DCEE", "U+D839U+DDEF", "U+D83AU+DCD0", "U+D83AU+DCD1",
              "U+D83AU+DCD2", "U+D83AU+DCD3", "U+D83AU+DCD4", "U+D83AU+DCD5",
              "U+D83AU+DCD6"}>>,
       <<222, {"U+059A", "U+05AD", "U+1939", "U+302D"}>>,
       <<224, {"U+302E", "U+302F"}>>,
       <<226, {"U+D834U+DD6D"}>>,
       <<228, {"U+05AE", "U+18A9", "U+1DF7", "U+1DF8", "U+302B"}>>,
       <<230, {"U+0300", "U+0301", "U+0302", "U+0303", "U+0304", "U+0305",
              "U+0306", "U+0307", "U+0308", "U+0309", "U+030A", "U+030B",
              "U+030C", "U+030D", "U+030E", "U+030F", "U+0310", "U+0311",
              "U+0312", "U+0313", "U+0314", "U+033D", "U+033E", "U+033F",
              "U+0340", "U+0341", "U+0342", "U+0343", "U+0344", "U+0346",
              "U+034A", "U+034B", "U+034C", "U+0350", "U+0351", "U+0352",
              "U+0357", "U+035B", "U+0363", "U+0364", "U+0365", "U+0366",
              "U+0367", "U+0368", "U+0369", "U+036A", "U+036B", "U+036C",
              "U+036D", "U+036E", "U+036F", "U+0483", "U+0484", "U+0485",
              "U+0486", "U+0487", "U+0592", "U+0593", "U+0594", "U+0595",
              "U+0597", "U+0598", "U+0599", "U+059C", "U+059D", "U+059E",
              "U+059F", "U+05A0", "U+05A1", "U+05A8", "U+05A9", "U+05AB",
              "U+05AC", "U+05AF", "U+05C4", "U+0610", "U+0611", "U+0612",
              "U+0613", "U+0614", "U+0615", "U+0616", "U+0617", "U+0653",
              "U+0654", "U+0657", "U+0658", "U+0659", "U+065A", "U+065B",
              "U+065D", "U+065E", "U+06D6", "U+06D7", "U+06D8", "U+06D9",
              "U+06DA", "U+06DB", "U+06DC", "U+06DF", "U+06E0", "U+06E1",
              "U+06E2", "U+06E4", "U+06E7", "U+06E8", "U+06EB", "U+06EC",
              "U+0730", "U+0732", "U+0733", "U+0735", "U+0736", "U+073A",
              "U+073D", "U+073F", "U+0740", "U+0741", "U+0743", "U+0745",
              "U+0747", "U+0749", "U+074A", "U+07EB", "U+07EC", "U+07ED",
              "U+07EE", "U+07EF", "U+07F0", "U+07F1", "U+07F3", "U+0816",
              "U+0817", "U+0818", "U+0819", "U+081B", "U+081C", "U+081D",
              "U+081E", "U+081F", "U+0820", "U+0821", "U+0822", "U+0823",
              "U+0825", "U+0826", "U+0827", "U+0829", "U+082A", "U+082B",
              "U+082C", "U+082D", "U+0897", "U+0898", "U+089C", "U+089D",
              "U+089E", "U+089F", "U+08CA", "U+08CB", "U+08CC", "U+08CD",
              "U+08CE", "U+08D4", "U+08D5", "U+08D6", "U+08D7", "U+08D8",
              "U+08D9", "U+08DA", "U+08DB", "U+08DC", "U+08DD", "U+08DE",
              "U+08DF", "U+08E0", "U+08E1", "U+08E4", "U+08E5", "U+08E7",
              "U+08E8", "U+08EA", "U+08EB", "U+08EC", "U+08F3", "U+08F4",
              "U+08F5", "U+08F7", "U+08F8", "U+08FB", "U+08FC", "U+08FD",
              "U+08FE", "U+08FF", "U+0951", "U+0953", "U+0954", "U+09FE",
              "U+0F82", "U+0F83", "U+0F86", "U+0F87", "U+135D", "U+135E",
              "U+135F", "U+17DD", "U+193A", "U+1A17", "U+1A75", "U+1A76",
              "U+1A77", "U+1A78", "U+1A79", "U+1A7A", "U+1A7B", "U+1A7C",
              "U+1AB0", "U+1AB1", "U+1AB2", "U+1AB3", "U+1AB4", "U+1ABB",
              "U+1ABC", "U+1AC1", "U+1AC2", "U+1AC5", "U+1AC6", "U+1AC7",
              "U+1AC8", "U+1AC9", "U+1ACB", "U+1ACC", "U+1ACD", "U+1ACE",
              "U+1ACF", "U+1AD0", "U+1AD1", "U+1AD2", "U+1AD3", "U+1AD4",
              "U+1AD5", "U+1AD6", "U+1AD7", "U+1AD8", "U+1AD9", "U+1ADA",
              "U+1ADB", "U+1ADC", "U+1AE0", "U+1AE1", "U+1AE2", "U+1AE3",
              "U+1AE4", "U+1AE5", "U+1AE7", "U+1AE8", "U+1AE9", "U+1AEA",
              "U+1B6B", "U+1B6D", "U+1B6E", "U+1B6F", "U+1B70", "U+1B71",
              "U+1B72", "U+1B73", "U+1CD0", "U+1CD1", "U+1CD2", "U+1CDA",
              "U+1CDB", "U+1CE0", "U+1CF4", "U+1CF8", "U+1CF9", "U+1DC0",
              "U+1DC1", "U+1DC3", "U+1DC4", "U+1DC5", "U+1DC6", "U+1DC7",
              "U+1DC8", "U+1DC9", "U+1DCB", "U+1DCC", "U+1DD1", "U+1DD2",
              "U+1DD3", "U+1DD4", "U+1DD5", "U+1DD6", "U+1DD7", "U+1DD8",
              "U+1DD9", "U+1DDA", "U+1DDB", "U+1DDC", "U+1DDD", "U+1DDE",
              "U+1DDF", "U+1DE0", "U+1DE1", "U+1DE2", "U+1DE3", "U+1DE4",
              "U+1DE5", "U+1DE6", "U+1DE7", "U+1DE8", "U+1DE9", "U+1DEA",
              "U+1DEB", "U+1DEC", "U+1DED", "U+1DEE", "U+1DEF", "U+1DF0",
              "U+1DF1", "U+1DF2", "U+1DF3", "U+1DF4", "U+1DF5", "U+1DFB",
              "U+1DFE", "U+20D0", "U+20D1", "U+20D4", "U+20D5", "U+20D6",
              "U+20D7", "U+20DB", "U+20DC", "U+20E1", "U+20E7", "U+20E9",
              "U+20F0", "U+2CEF", "U+2CF0", "U+2CF1", "U+2DE0", "U+2DE1",
              "U+2DE2", "U+2DE3", "U+2DE4", "U+2DE5", "U+2DE6", "U+2DE7",
              "U+2DE8", "U+2DE9", "U+2DEA", "U+2DEB", "U+2DEC", "U+2DED",
              "U+2DEE", "U+2DEF", "U+2DF0", "U+2DF1", "U+2DF2", "U+2DF3",
              "U+2DF4", "U+2DF5", "U+2DF6", "U+2DF7", "U+2DF8", "U+2DF9",
              "U+2DFA", "U+2DFB", "U+2DFC", "U+2DFD", "U+2DFE", "U+2DFF",
              "U+A66F", "U+A674", "U+A675", "U+A676", "U+A677", "U+A678",
              "U+A679", "U+A67A", "U+A67B", "U+A67C", "U+A67D", "U+A69E",
              "U+A69F", "U+A6F0", "U+A6F1", "U+A8E0", "U+A8E1", "U+A8E2",
              "U+A8E3", "U+A8E4", "U+A8E5", "U+A8E6", "U+A8E7", "U+A8E8",
              "U+A8E9", "U+A8EA", "U+A8EB", "U+A8EC", "U+A8ED", "U+A8EE",
              "U+A8EF", "U+A8F0", "U+A8F1", "U+AAB0", "U+AAB2", "U+AAB3",
              "U+AAB7", "U+AAB8", "U+AABE", "U+AABF", "U+AAC1", "U+FE20",
              "U+FE21", "U+FE22", "U+FE23", "U+FE24", "U+FE25", "U+FE26",
              "U+FE2E", "U+FE2F", "U+D800U+DF76", "U+D800U+DF77",
              "U+D800U+DF78", "U+D800U+DF79", "U+D800U+DF7A", "U+D802U+DE0F",
              "U+D802U+DE38", "U+D802U+DEE5", "U+D803U+DD24", "U+D803U+DD25",
              "U+D803U+DD26", "U+D803U+DD27", "U+D803U+DD69", "U+D803U+DD6A",
              "U+D803U+DD6B", "U+D803U+DD6C", "U+D803U+DD6D", "U+D803U+DEAB",
              "U+D803U+DEAC", "U+D803U+DF48", "U+D803U+DF49", "U+D803U+DF4A",
              "U+D803U+DF4C", "U+D803U+DF82", "U+D803U+DF84", "U+D804U+DD00",
              "U+D804U+DD01", "U+D804U+DD02", "U+D804U+DF66", "U+D804U+DF67",
              "U+D804U+DF68", "U+D804U+DF69", "U+D804U+DF6A", "U+D804U+DF6B",
              "U+D804U+DF6C", "U+D804U+DF70", "U+D804U+DF71", "U+D804U+DF72",
              "U+D804U+DF73", "U+D804U+DF74", "U+D805U+DC5E", "U+D81AU+DF30",
              "U+D81AU+DF31", "U+D81AU+DF32", "U+D81AU+DF33", "U+D81AU+DF34",
              "U+D81AU+DF35", "U+D81AU+DF36", "U+D834U+DD85", "U+D834U+DD86",
              "U+D834U+DD87", "U+D834U+DD88", "U+D834U+DD89", "U+D834U+DDAA",
              "U+D834U+DDAB", "U+D834U+DDAC", "U+D834U+DDAD", "U+D834U+DE42",
              "U+D834U+DE43", "U+D834U+DE44", "U+D838U+DC00", "U+D838U+DC01",
              "U+D838U+DC02", "U+D838U+DC03", "U+D838U+DC04", "U+D838U+DC05",
              "U+D838U+DC06", "U+D838U+DC08", "U+D838U+DC09", "U+D838U+DC0A",
              "U+D838U+DC0B", "U+D838U+DC0C", "U+D838U+DC0D", "U+D838U+DC0E",
              "U+D838U+DC0F", "U+D838U+DC10", "U+D838U+DC11", "U+D838U+DC12",
              "U+D838U+DC13", "U+D838U+DC14", "U+D838U+DC15", "U+D838U+DC16",
              "U+D838U+DC17", "U+D838U+DC18", "U+D838U+DC1B", "U+D838U+DC1C",
              "U+D838U+DC1D", "U+D838U+DC1E", "U+D838U+DC1F", "U+D838U+DC20",
              "U+D838U+DC21", "U+D838U+DC23", "U+D838U+DC24", "U+D838U+DC26",
              "U+D838U+DC27", "U+D838U+DC28", "U+D838U+DC29", "U+D838U+DC2A",
              "U+D838U+DC8F", "U+D838U+DD30", "U+D838U+DD31", "U+D838U+DD32",
              "U+D838U+DD33", "U+D838U+DD34", "U+D838U+DD35", "U+D838U+DD36",
              "U+D838U+DEAE", "U+D838U+DEEC", "U+D838U+DEED", "U+D838U+DEEE",
              "U+D838U+DEEF", "U+D839U+DCEF", "U+D839U+DDEE", "U+D839U+DEE3",
              "U+D839U+DEE6", "U+D839U+DEEE", "U+D839U+DEEF", "U+D839U+DEF5",
              "U+D83AU+DD44", "U+D83AU+DD45", "U+D83AU+DD46", "U+D83AU+DD47",
              "U+D83AU+DD48", "U+D83AU+DD49"}>>,
       <<232, {"U+0315", "U+031A", "U+0358", "U+1DF6", "U+302C",
              "U+D839U+DCEC", "U+D839U+DCED"}>>,
       <<233, {"U+035C", "U+035F", "U+0362", "U+1DFC"}>>,
       <<234, {"U+035D", "U+035E", "U+0360", "U+0361", "U+1AEB", "U+1DCD"}>>,
       <<240, {"U+0345"}>> >>

\* the class of c by the table: 0 when no class has it
ClasseNaTabela(tabela, c) ==
    IF \E i \in DOMAIN tabela : c \in tabela[i][2]
    THEN tabela[CHOOSE i \in DOMAIN tabela : c \in tabela[i][2]][1]
    ELSE 0

\* Canonical_Combining_Class of the character with key c (0 for a starter)
ClasseCombinacao(c) ==
    IF c \in AsciiChars THEN 0 ELSE ClasseNaTabela(ClassesCombinacao, c)

\* the precomposed Hangul syllables U+AC00..U+D7A3, by syllable index
HangulSilabas == [n \in 0..11171 |-> NomeDe(44032 + n)]

HangulNomes == {HangulSilabas[n] : n \in 0..11171}

\* the arithmetic decomposition of a Hangul syllable into its jamo
HangulNFD(c) ==
    LET n == CHOOSE m \in 0..11171 : HangulSilabas[m] = c
        l == n \div 588
        v == (n % 588) \div 28
        t == n % 28
    IN  <<NomeDe(4352 + l), NomeDe(4449 + v)>>
            \o (IF t = 0 THEN <<>> ELSE <<NomeDe(4519 + t)>>)

\* the image of the code point p by a table: a table is a sequence of rows
\* of the given width, each the key of a code point, the code units of its
\* image, and "" up to the width; a code point with no row is its own image
ImagemNaTabela(tabela, largura, p) ==
    IF \E i \in 0..((Len(tabela) \div largura) - 1) :
           tabela[largura * i + 1] = Chave(p)
    THEN LET i == CHOOSE j \in 0..((Len(tabela) \div largura) - 1) :
                      tabela[largura * j + 1] = Chave(p)
         IN  SelectSeq(SubSeq(tabela, largura * i + 2, largura * i + largura),
                       LAMBDA x : x # "")
    ELSE p

\* the characters of the Basic Multilingual Plane with a canonical
\* decomposition, each with its full decomposition (the decomposition
\* mappings of UnicodeData, applied recursively); the Hangul syllables are
\* apart
NFDTabela ==
    <<
       "U+00C0", "A", "U+0300", "", "",
       "U+00C1", "A", "U+0301", "", "",
       "U+00C2", "A", "U+0302", "", "",
       "U+00C3", "A", "U+0303", "", "",
       "U+00C4", "A", "U+0308", "", "",
       "U+00C5", "A", "U+030A", "", "",
       "U+00C7", "C", "U+0327", "", "",
       "U+00C8", "E", "U+0300", "", "",
       "U+00C9", "E", "U+0301", "", "",
       "U+00CA", "E", "U+0302", "", "",
       "U+00CB", "E", "U+0308", "", "",
       "U+00CC", "I", "U+0300", "", "",
       "U+00CD", "I", "U+0301", "", "",
       "U+00CE", "I", "U+0302", "", "",
       "U+00CF", "I", "U+0308", "", "",
       "U+00D1", "N", "U+0303", "", "",
       "U+00D2", "O", "U+0300", "", "",
       "U+00D3", "O", "U+0301", "", "",
       "U+00D4", "O", "U+0302", "", "",
       "U+00D5", "O", "U+0303", "", "",
       "U+00D6", "O", "U+0308", "", "",
       "U+00D9", "U", "U+0300", "", "",
       "U+00DA", "U", "U+0301", "", "",
       "U+00DB", "U", "U+0302", "", "",
       "U+00DC", "U", "U+0308", "", "",
       "U+00DD", "Y", "U+0301", "", "",
       "U+00E0", "a", "U+0300", "", "",
       "U+00E1", "a", "U+0301", "", "",
       "U+00E2", "a", "U+0302", "", "",
       "U+00E3", "a", "U+0303", "", "",
       "U+00E4", "a", "U+0308", "", "",
       "U+00E5", "a", "U+030A", "", "",
       "U+00E7", "c", "U+0327", "", "",
       "U+00E8", "e", "U+0300", "", "",
       "U+00E9", "e", "U+0301", "", "",
       "U+00EA", "e", "U+0302", "", "",
       "U+00EB", "e", "U+0308", "", "",
       "U+00EC", "i", "U+0300", "", "",
       "U+00ED", "i", "U+0301", "", "",
       "U+00EE", "i", "U+0302", "", "",
       "U+00EF", "i", "U+0308", "", "",
       "U+00F1", "n", "U+0303", "", "",
       "U+00F2", "o", "U+0300", "", "",
       "U+00F3", "o", "U+0301", "", "",
       "U+00F4", "o", "U+0302", "", "",
       "U+00F5", "o", "U+0303", "", "",
       "U+00F6", "o", "U+0308", "", "",
       "U+00F9", "u", "U+0300", "", "",
       "U+00FA", "u", "U+0301", "", "",
       "U+00FB", "u", "U+0302", "", "",
       "U+00FC", "u", "U+0308", "", "",
       "U+00FD", "y", "U+0301", "", "",
       "U+00FF", "y", "U+0308", "", "",
       "U+0100", "A", "U+0304", "", "",
       "U+0101", "a", "U+0304", "", "",
       "U+0102", "A", "U+0306", "", "",
       "U+0103", "a", "U+0306", "", "",
       "U+0104", "A", "U+0328", "", "",
       "U+0105", "a", "U+0328", "", "",
       "U+0106", "C", "U+0301", "", "",
       "U+0107", "c", "U+0301", "", "",
       "U+0108", "C", "U+0302", "", "",
       "U+0109", "c", "U+0302", "", "",
       "U+010A", "C", "U+0307", "", "",
       "U+010B", "c", "U+0307", "", "",
       "U+010C", "C", "U+030C", "", "",
       "U+010D", "c", "U+030C", "", "",
       "U+010E", "D", "U+030C", "", "",
       "U+010F", "d", "U+030C", "", "",
       "U+0112", "E", "U+0304", "", "",
       "U+0113", "e", "U+0304", "", "",
       "U+0114", "E", "U+0306", "", "",
       "U+0115", "e", "U+0306", "", "",
       "U+0116", "E", "U+0307", "", "",
       "U+0117", "e", "U+0307", "", "",
       "U+0118", "E", "U+0328", "", "",
       "U+0119", "e", "U+0328", "", "",
       "U+011A", "E", "U+030C", "", "",
       "U+011B", "e", "U+030C", "", "",
       "U+011C", "G", "U+0302", "", "",
       "U+011D", "g", "U+0302", "", "",
       "U+011E", "G", "U+0306", "", "",
       "U+011F", "g", "U+0306", "", "",
       "U+0120", "G", "U+0307", "", "",
       "U+0121", "g", "U+0307", "", "",
       "U+0122", "G", "U+0327", "", "",
       "U+0123", "g", "U+0327", "", "",
       "U+0124", "H", "U+0302", "", "",
       "U+0125", "h", "U+0302", "", "",
       "U+0128", "I", "U+0303", "", "",
       "U+0129", "i", "U+0303", "", "",
       "U+012A", "I", "U+0304", "", "",
       "U+012B", "i", "U+0304", "", "",
       "U+012C", "I", "U+0306", "", "",
       "U+012D", "i", "U+0306", "", "",
       "U+012E", "I", "U+0328", "", "",
       "U+012F", "i", "U+0328", "", "",
       "U+0130", "I", "U+0307", "", "",
       "U+0134", "J", "U+0302", "", "",
       "U+0135", "j", "U+0302", "", "",
       "U+0136", "K", "U+0327", "", "",
       "U+0137", "k", "U+0327", "", "",
       "U+0139", "L", "U+0301", "", "",
       "U+013A", "l", "U+0301", "", "",
       "U+013B", "L", "U+0327", "", "",
       "U+013C", "l", "U+0327", "", "",
       "U+013D", "L", "U+030C", "", "",
       "U+013E", "l", "U+030C", "", "",
       "U+0143", "N", "U+0301", "", "",
       "U+0144", "n", "U+0301", "", "",
       "U+0145", "N", "U+0327", "", "",
       "U+0146", "n", "U+0327", "", "",
       "U+0147", "N", "U+030C", "", "",
       "U+0148", "n", "U+030C", "", "",
       "U+014C", "O", "U+0304", "", "",
       "U+014D", "o", "U+0304", "", "",
       "U+014E", "O", "U+0306", "", "",
       "U+014F", "o", "U+0306", "", "",
       "U+0150", "O", "U+030B", "", "",
       "U+0151", "o", "U+030B", "", "",
       "U+0154", "R", "U+0301", "", "",
       "U+0155", "r", "U+0301", "", "",
       "U+0156", "R", "U+0327", "", "",
       "U+0157", "r", "U+0327", "", "",
       "U+0158", "R", "U+030C", "", "",
       "U+0159", "r", "U+030C", "", "",
       "U+015A", "S", "U+0301", "", "",
       "U+015B", "s", "U+0301", "", "",
       "U+015C", "S", "U+0302", "", "",
       "U+015D", "s", "U+0302", "", "",
       "U+015E", "S", "U+0327", "", "",
       "U+015F", "s", "U+0327", "", "",
       "U+0160", "S", "U+030C", "", "",
       "U+0161", "s", "U+030C", "", "",
       "U+0162", "T", "U+0327", "", "",
       "U+0163", "t", "U+0327", "", "",
       "U+0164", "T", "U+030C", "", "",
       "U+0165", "t", "U+030C", "", "",
       "U+0168", "U", "U+0303", "", "",
       "U+0169", "u", "U+0303", "", "",
       "U+016A", "U", "U+0304", "", "",
       "U+016B", "u", "U+0304", "", "",
       "U+016C", "U", "U+0306", "", "",
       "U+016D", "u", "U+0306", "", "",
       "U+016E", "U", "U+030A", "", "",
       "U+016F", "u", "U+030A", "", "",
       "U+0170", "U", "U+030B", "", "",
       "U+0171", "u", "U+030B", "", "",
       "U+0172", "U", "U+0328", "", "",
       "U+0173", "u", "U+0328", "", "",
       "U+0174", "W", "U+0302", "", "",
       "U+0175", "w", "U+0302", "", "",
       "U+0176", "Y", "U+0302", "", "",
       "U+0177", "y", "U+0302", "", "",
       "U+0178", "Y", "U+0308", "", "",
       "U+0179", "Z", "U+0301", "", "",
       "U+017A", "z", "U+0301", "", "",
       "U+017B", "Z", "U+0307", "", "",
       "U+017C", "z", "U+0307", "", "",
       "U+017D", "Z", "U+030C", "", "",
       "U+017E", "z", "U+030C", "", "",
       "U+01A0", "O", "U+031B", "", "",
       "U+01A1", "o", "U+031B", "", "",
       "U+01AF", "U", "U+031B", "", "",
       "U+01B0", "u", "U+031B", "", "",
       "U+01CD", "A", "U+030C", "", "",
       "U+01CE", "a", "U+030C", "", "",
       "U+01CF", "I", "U+030C", "", "",
       "U+01D0", "i", "U+030C", "", "",
       "U+01D1", "O", "U+030C", "", "",
       "U+01D2", "o", "U+030C", "", "",
       "U+01D3", "U", "U+030C", "", "",
       "U+01D4", "u", "U+030C", "", "",
       "U+01D5", "U", "U+0308", "U+0304", "",
       "U+01D6", "u", "U+0308", "U+0304", "",
       "U+01D7", "U", "U+0308", "U+0301", "",
       "U+01D8", "u", "U+0308", "U+0301", "",
       "U+01D9", "U", "U+0308", "U+030C", "",
       "U+01DA", "u", "U+0308", "U+030C", "",
       "U+01DB", "U", "U+0308", "U+0300", "",
       "U+01DC", "u", "U+0308", "U+0300", "",
       "U+01DE", "A", "U+0308", "U+0304", "",
       "U+01DF", "a", "U+0308", "U+0304", "",
       "U+01E0", "A", "U+0307", "U+0304", "",
       "U+01E1", "a", "U+0307", "U+0304", "",
       "U+01E2", "U+00C6", "U+0304", "", "",
       "U+01E3", "U+00E6", "U+0304", "", "",
       "U+01E6", "G", "U+030C", "", "",
       "U+01E7", "g", "U+030C", "", "",
       "U+01E8", "K", "U+030C", "", "",
       "U+01E9", "k", "U+030C", "", "",
       "U+01EA", "O", "U+0328", "", "",
       "U+01EB", "o", "U+0328", "", "",
       "U+01EC", "O", "U+0328", "U+0304", "",
       "U+01ED", "o", "U+0328", "U+0304", "",
       "U+01EE", "U+01B7", "U+030C", "", "",
       "U+01EF", "U+0292", "U+030C", "", "",
       "U+01F0", "j", "U+030C", "", "",
       "U+01F4", "G", "U+0301", "", "",
       "U+01F5", "g", "U+0301", "", "",
       "U+01F8", "N", "U+0300", "", "",
       "U+01F9", "n", "U+0300", "", "",
       "U+01FA", "A", "U+030A", "U+0301", "",
       "U+01FB", "a", "U+030A", "U+0301", "",
       "U+01FC", "U+00C6", "U+0301", "", "",
       "U+01FD", "U+00E6", "U+0301", "", "",
       "U+01FE", "U+00D8", "U+0301", "", "",
       "U+01FF", "U+00F8", "U+0301", "", "",
       "U+0200", "A", "U+030F", "", "",
       "U+0201", "a", "U+030F", "", "",
       "U+0202", "A", "U+0311", "", "",
       "U+0203", "a", "U+0311", "", "",
       "U+0204", "E", "U+030F", "", "",
       "U+0205", "e", "U+030F", "", "",
       "U+0206", "E", "U+0311", "", "",
       "U+0207", "e", "U+0311", "", "",
       "U+0208", "I", "U+030F", "", "",
       "U+0209", "i", "U+030F", "", "",
       "U+020A", "I", "U+0311", "", "",
       "U+020B", "i", "U+0311", "", "",
       "U+020C", "O", "U+030F", "", "",
       "U+020D", "o", "U+030F", "", "",
       "U+020E", "O", "U+0311", "", "",
       "U+020F", "o", "U+0311", "", "",
       "U+0210", "R", "U+030F", "", "",
       "U+0211", "r", "U+030F", "", "",
       "U+0212", "R", "U+0311", "", "",
       "U+0213", "r", "U+0311", "", "",
       "U+0214", "U", "U+030F", "", "",
       "U+0215", "u", "U+030F", "", "",
       "U+0216", "U", "U+0311", "", "",
       "U+0217", "u", "U+0311", "", "",
       "U+0218", "S", "U+0326", "", "",
       "U+0219", "s", "U+0326", "", "",
       "U+021A", "T", "U+0326", "", "",
       "U+021B", "t", "U+0326", "", "",
       "U+021E", "H", "U+030C", "", "",
       "U+021F", "h", "U+030C", "", "",
       "U+0226", "A", "U+0307", "", "",
       "U+0227", "a", "U+0307", "", "",
       "U+0228", "E", "U+0327", "", "",
       "U+0229", "e", "U+0327", "", "",
       "U+022A", "O", "U+0308", "U+0304", "",
       "U+022B", "o", "U+0308", "U+0304", "",
       "U+022C", "O", "U+0303", "U+0304", "",
       "U+022D", "o", "U+0303", "U+0304", "",
       "U+022E", "O", "U+0307", "", "",
       "U+022F", "o", "U+0307", "", "",
       "U+0230", "O", "U+0307", "U+0304", "",
       "U+0231", "o", "U+0307", "U+0304", "",
       "U+0232", "Y", "U+0304", "", "",
       "U+0233", "y", "U+0304", "", "",
       "U+0340", "U+0300", "", "", "",
       "U+0341", "U+0301", "", "", "",
       "U+0343", "U+0313", "", "", "",
       "U+0344", "U+0308", "U+0301", "", "",
       "U+0374", "U+02B9", "", "", "",
       "U+037E", ";", "", "", "",
       "U+0385", "U+00A8", "U+0301", "", "",
       "U+0386", "U+0391", "U+0301", "", "",
       "U+0387", "U+00B7", "", "", "",
       "U+0388", "U+0395", "U+0301", "", "",
       "U+0389", "U+0397", "U+0301", "", "",
       "U+038A", "U+0399", "U+0301", "", "",
       "U+038C", "U+039F", "U+0301", "", "",
       "U+038E", "U+03A5", "U+0301", "", "",
       "U+038F", "U+03A9", "U+0301", "", "",
       "U+0390", "U+03B9", "U+0308", "U+0301", "",
       "U+03AA", "U+0399", "U+0308", "", "",
       "U+03AB", "U+03A5", "U+0308", "", "",
       "U+03AC", "U+03B1", "U+0301", "", "",
       "U+03AD", "U+03B5", "U+0301", "", "",
       "U+03AE", "U+03B7", "U+0301", "", "",
       "U+03AF", "U+03B9", "U+0301", "", "",
       "U+03B0", "U+03C5", "U+0308", "U+0301", "",
       "U+03CA", "U+03B9", "U+0308", "", "",
       "U+03CB", "U+03C5", "U+0308", "", "",
       "U+03CC", "U+03BF", "U+0301", "", "",
       "U+03CD", "U+03C5", "U+0301", "", "",
       "U+03CE", "U+03C9", "U+0301", "", "",
       "U+03D3", "U+03D2", "U+0301", "", "",
       "U+03D4", "U+03D2", "U+0308", "", "",
       "U+0400", "U+0415", "U+0300", "", "",
       "U+0401", "U+0415", "U+0308", "", "",
       "U+0403", "U+0413", "U+0301", "", "",
       "U+0407", "U+0406", "U+0308", "", "",
       "U+040C", "U+041A", "U+0301", "", "",
       "U+040D", "U+0418", "U+0300", "", "",
       "U+040E", "U+0423", "U+0306", "", "",
       "U+0419", "U+0418", "U+0306", "", "",
       "U+0439", "U+0438", "U+0306", "", "",
       "U+0450", "U+0435", "U+0300", "", "",
       "U+0451", "U+0435", "U+0308", "", "",
       "U+0453", "U+0433", "U+0301", "", "",
       "U+0457", "U+0456", "U+0308", "", "",
       "U+045C", "U+043A", "U+0301", "", "",
       "U+045D", "U+0438", "U+0300", "", "",
       "U+045E", "U+0443", "U+0306", "", "",
       "U+0476", "U+0474", "U+030F", "", "",
       "U+0477", "U+0475", "U+030F", "", "",
       "U+04C1", "U+0416", "U+0306", "", "",
       "U+04C2", "U+0436", "U+0306", "", "",
       "U+04D0", "U+0410", "U+0306", "", "",
       "U+04D1", "U+0430", "U+0306", "", "",
       "U+04D2", "U+0410", "U+0308", "", "",
       "U+04D3", "U+0430", "U+0308", "", "",
       "U+04D6", "U+0415", "U+0306", "", "",
       "U+04D7", "U+0435", "U+0306", "", "",
       "U+04DA", "U+04D8", "U+0308", "", "",
       "U+04DB", "U+04D9", "U+0308", "", "",
       "U+04DC", "U+0416", "U+0308", "", "",
       "U+04DD", "U+0436", "U+0308", "", "",
       "U+04DE", "U+0417", "U+0308", "", "",
       "U+04DF", "U+0437", "U+0308", "", "",
       "U+04E2", "U+0418", "U+0304", "", "",
       "U+04E3", "U+0438", "U+0304", "", "",
       "U+04E4", "U+0418", "U+0308", "", "",
       "U+04E5", "U+0438", "U+0308", "", "",
       "U+04E6", "U+041E", "U+0308", "", "",
       "U+04E7", "U+043E", "U+0308", "", "",
       "U+04EA", "U+04E8", "U+0308", "", "",
       "U+04EB", "U+04E9", "U+0308", "", "",
       "U+04EC", "U+042D", "U+0308", "", "",
       "U+04ED", "U+044D", "U+0308", "", "",
       "U+04EE", "U+0423", "U+0304", "", "",
       "U+04EF", "U+0443", "U+0304", "", "",
       "U+04F0", "U+0423", "U+0308", "", "",
       "U+04F1", "U+0443", "U+0308", "", "",
       "U+04F2", "U+0423", "U+030B", "", "",
       "U+04F3", "U+0443", "U+030B", "", "",
       "U+04F4", "U+0427", "U+0308", "", "",
       "U+04F5", "U+0447", "U+0308", "", "",
       "U+04F8", "U+042B", "U+0308", "", "",
       "U+04F9", "U+044B", "U+0308", "", "",
       "U+0622", "U+0627", "U+0653", "", "",
       "U+0623", "U+0627", "U+0654", "", "",
       "U+0624", "U+0648", "U+0654", "", "",
       "U+0625", "U+0627", "U+0655", "", "",
       "U+0626", "U+064A", "U+0654", "", "",
       "U+06C0", "U+06D5", "U+0654", "", "",
       "U+06C2", "U+06C1", "U+0654", "", "",
       "U+06D3", "U+06D2", "U+0654", "", "",
       "U+0929", "U+0928", "U+093C", "", "",
       "U+0931", "U+0930", "U+093C", "", "",
       "U+0934", "U+0933", "U+093C", "", "",
       "U+0958", "U+0915", "U+093C", "", "",
       "U+0959", "U+0916", "U+093C", "", "",
       "U+095A", "U+0917", "U+093C", "", "",
       "U+095B", "U+091C", "U+093C", "", "",
       "U+095C", "U+0921", "U+093C", "", "",
       "U+095D", "U+0922", "U+093C", "", "",
       "U+095E", "U+092B", "U+093C", "", "",
       "U+095F", "U+092F", "U+093C", "", "",
       "U+09CB", "U+09C7", "U+09BE", "", "",
       "U+09CC", "U+09C7", "U+09D7", "", "",
       "U+09DC", "U+09A1", "U+09BC", "", "",
       "U+09DD", "U+09A2", "U+09BC", "", "",
       "U+09DF", "U+09AF", "U+09BC", "", "",
       "U+0A33", "U+0A32", "U+0A3C", "", "",
       "U+0A36", "U+0A38", "U+0A3C", "", "",
       "U+0A59", "U+0A16", "U+0A3C", "", "",
       "U+0A5A", "U+0A17", "U+0A3C", "", "",
       "U+0A5B", "U+0A1C", "U+0A3C", "", "",
       "U+0A5E", "U+0A2B", "U+0A3C", "", "",
       "U+0B48", "U+0B47", "U+0B56", "", "",
       "U+0B4B", "U+0B47", "U+0B3E", "", "",
       "U+0B4C", "U+0B47", "U+0B57", "", "",
       "U+0B5C", "U+0B21", "U+0B3C", "", "",
       "U+0B5D", "U+0B22", "U+0B3C", "", "",
       "U+0B94", "U+0B92", "U+0BD7", "", "",
       "U+0BCA", "U+0BC6", "U+0BBE", "", "",
       "U+0BCB", "U+0BC7", "U+0BBE", "", "",
       "U+0BCC", "U+0BC6", "U+0BD7", "", "",
       "U+0C48", "U+0C46", "U+0C56", "", "",
       "U+0CC0", "U+0CBF", "U+0CD5", "", "",
       "U+0CC7", "U+0CC6", "U+0CD5", "", "",
       "U+0CC8", "U+0CC6", "U+0CD6", "", "",
       "U+0CCA", "U+0CC6", "U+0CC2", "", "",
       "U+0CCB", "U+0CC6", "U+0CC2", "U+0CD5", "",
       "U+0D4A", "U+0D46", "U+0D3E", "", "",
       "U+0D4B", "U+0D47", "U+0D3E", "", "",
       "U+0D4C", "U+0D46", "U+0D57", "", "",
       "U+0DDA", "U+0DD9", "U+0DCA", "", "",
       "U+0DDC", "U+0DD9", "U+0DCF", "", "",
       "U+0DDD", "U+0DD9", "U+0DCF", "U+0DCA", "",
       "U+0DDE", "U+0DD9", "U+0DDF", "", "",
       "U+0F43", "U+0F42", "U+0FB7", "", "",
       "U+0F4D", "U+0F4C", "U+0FB7", "", "",
       "U+0F52", "U+0F51", "U+0FB7", "", "",
       "U+0F57", "U+0F56", "U+0FB7", "", "",
       "U+0F5C", "U+0F5B", "U+0FB7", "", "",
       "U+0F69", "U+0F40", "U+0FB5", "", "",
       "U+0F73", "U+0F71", "U+0F72", "", "",
       "U+0F75", "U+0F71", "U+0F74", "", "",
       "U+0F76", "U+0FB2", "U+0F80", "", "",
       "U+0F78", "U+0FB3", "U+0F80", "", "",
       "U+0F81", "U+0F71", "U+0F80", "", "",
       "U+0F93", "U+0F92", "U+0FB7", "", "",
       "U+0F9D", "U+0F9C", "U+0FB7", "", "",
       "U+0FA2", "U+0FA1", "U+0FB7", "", "",
       "U+0FA7", "U+0FA6", "U+0FB7", "", "",
       "U+0FAC", "U+0FAB", "U+0FB7", "", "",
       "U+0FB9", "U+0F90", "U+0FB5", "", "",
       "U+1026", "U+1025", "U+102E", "", "",
       "U+1B06", "U+1B05", "U+1B35", "", "",
       "U+1B08", "U+1B07", "U+1B35", "", "",
       "U+1B0A", "U+1B09", "U+1B35", "", "",
       "U+1B0C", "U+1B0B", "U+1B35", "", "",
       "U+1B0E", "U+1B0D", "U+1B35", "", "",
       "U+1B12", "U+1B11", "U+1B35", "", "",
       "U+1B3B", "U+1B3A", "U+1B35", "", "",
       "U+1B3D", "U+1B3C", "U+1B35", "", "",
       "U+1B40", "U+1B3E", "U+1B35", "", "",
       "U+1B41", "U+1B3F", "U+1B35", "", "",
       "U+1B43", "U+1B42", "U+1B35", "", "",
       "U+1E00", "A", "U+0325", "", "",
       "U+1E01", "a", "U+0325", "", "",
       "U+1E02", "B", "U+0307", "", "",
       "U+1E03", "b", "U+0307", "", "",
       "U+1E04", "B", "U+0323", "", "",
       "U+1E05", "b", "U+0323", "", "",
       "U+1E06", "B", "U+0331", "", "",
       "U+1E07", "b", "U+0331", "", "",
       "U+1E08", "C", "U+0327", "U+0301", "",
       "U+1E09", "c", "U+0327", "U+0301", "",
       "U+1E0A", "D", "U+0307", "", "",
       "U+1E0B", "d", "U+0307", "", "",
       "U+1E0C", "D", "U+0323", "", "",
       "U+1E0D", "d", "U+0323", "", "",
       "U+1E0E", "D", "U+0331", "", "",
       "U+1E0F", "d", "U+0331", "", "",
       "U+1E10", "D", "U+0327", "", "",
       "U+1E11", "d", "U+0327", "", "",
       "U+1E12", "D", "U+032D", "", "",
       "U+1E13", "d", "U+032D", "", "",
       "U+1E14", "E", "U+0304", "U+0300", "",
       "U+1E15", "e", "U+0304", "U+0300", "",
       "U+1E16", "E", "U+0304", "U+0301", "",
       "U+1E17", "e", "U+0304", "U+0301", "",
       "U+1E18", "E", "U+032D", "", "",
       "U+1E19", "e", "U+032D", "", "",
       "U+1E1A", "E", "U+0330", "", "",
       "U+1E1B", "e", "U+0330", "", "",
       "U+1E1C", "E", "U+0327", "U+0306", "",
       "U+1E1D", "e", "U+0327", "U+0306", "",
       "U+1E1E", "F", "U+0307", "", "",
       "U+1E1F", "f", "U+0307", "", "",
       "U+1E20", "G", "U+0304", "", "",
       "U+1E21", "g", "U+0304", "", "",
       "U+1E22", "H", "U+0307", "", "",
       "U+1E23", "h", "U+0307", "", "",
       "U+1E24", "H", "U+0323", "", "",
       "U+1E25", "h", "U+0323", "", "",
       "U+1E26", "H", "U+0308", "", "",
       "U+1E27", "h", "U+0308", "", "",
       "U+1E28", "H", "U+0327", "", "",
       "U+1E29", "h", "U+0327", "", "",
       "U+1E2A", "H", "U+032E", "", "",
       "U+1E2B", "h", "U+032E", "", "",
       "U+1E2C", "I", "U+0330", "", "",
       "U+1E2D", "i", "U+0330", "", "",
       "U+1E2E", "I", "U+0308", "U+0301", "",
       "U+1E2F", "i", "U+0308", "U+0301", "",
       "U+1E30", "K", "U+0301", "", "",
       "U+1E31", "k", "U+0301", "", "",
       "U+1E32", "K", "U+0323", "", "",
       "U+1E33", "k", "U+0323", "", "",
       "U+1E34", "K", "U+0331", "", "",
       "U+1E35", "k", "U+0331", "", "",
       "U+1E36", "L", "U+0323", "", "",
       "U+1E37", "l", "U+0323", "", "",
       "U+1E38", "L", "U+0323", "U+0304", "",
       "U+1E39", "l", "U+0323", "U+0304", "",
       "U+1E3A", "L", "U+0331", "", "",
       "U+1E3B", "l", "U+0331", "", "",
       "U+1E3C", "L", "U+032D", "", "",
       "U+1E3D", "l", "U+032D", "", "",
       "U+1E3E", "M", "U+0301", "", "",
       "U+1E3F", "m", "U+0301", "", "",
       "U+1E40", "M", "U+0307", "", "",
       "U+1E41", "m", "U+0307", "", "",
       "U+1E42", "M", "U+0323", "", "",
       "U+1E43", "m", "U+0323", "", "",
       "U+1E44", "N", "U+0307", "", "",
       "U+1E45", "n", "U+0307", "", "",
       "U+1E46", "N", "U+0323", "", "",
       "U+1E47", "n", "U+0323", "", "",
       "U+1E48", "N", "U+0331", "", "",
       "U+1E49", "n", "U+0331", "", "",
       "U+1E4A", "N", "U+032D", "", "",
       "U+1E4B", "n", "U+032D", "", "",
       "U+1E4C", "O", "U+0303", "U+0301", "",
       "U+1E4D", "o", "U+0303", "U+0301", "",
       "U+1E4E", "O", "U+0303", "U+0308", "",
       "U+1E4F", "o", "U+0303", "U+0308", "",
       "U+1E50", "O", "U+0304", "U+0300", "",
       "U+1E51", "o", "U+0304", "U+0300", "",
       "U+1E52", "O", "U+0304", "U+0301", "",
       "U+1E53", "o", "U+0304", "U+0301", "",
       "U+1E54", "P", "U+0301", "", "",
       "U+1E55", "p", "U+0301", "", "",
       "U+1E56", "P", "U+0307", "", "",
       "U+1E57", "p", "U+0307", "", "",
       "U+1E58", "R", "U+0307", "", "",
       "U+1E59", "r", "U+0307", "", "",
       "U+1E5A", "R", "U+0323", "", "",
       "U+1E5B", "r", "U+0323", "", "",
       "U+1E5C", "R", "U+0323", "U+0304", "",
       "U+1E5D", "r", "U+0323", "U+0304", "",
       "U+1E5E", "R", "U+0331", "", "",
       "U+1E5F", "r", "U+0331", "", "",
       "U+1E60", "S", "U+0307", "", "",
       "U+1E61", "s", "U+0307", "", "",
       "U+1E62", "S", "U+0323", "", "",
       "U+1E63", "s", "U+0323", "", "",
       "U+1E64", "S", "U+0301", "U+0307", "",
       "U+1E65", "s", "U+0301", "U+0307", "",
       "U+1E66", "S", "U+030C", "U+0307", "",
       "U+1E67", "s", "U+030C", "U+0307", "",
       "U+1E68", "S", "U+0323", "U+0307", "",
       "U+1E69", "s", "U+0323", "U+0307", "",
       "U+1E6A", "T", "U+0307", "", "",
       "U+1E6B", "t", "U+0307", "", "",
       "U+1E6C", "T", "U+0323", "", "",
       "U+1E6D", "t", "U+0323", "", "",
       "U+1E6E", "T", "U+0331", "", "",
       "U+1E6F", "t", "U+0331", "", "",
       "U+1E70", "T", "U+032D", "", "",
       "U+1E71", "t", "U+032D", "", "",
       "U+1E72", "U", "U+0324", "", "",
       "U+1E73", "u", "U+0324", "", "",
       "U+1E74", "U", "U+0330", "", "",
       "U+1E75", "u", "U+0330", "", "",
       "U+1E76", "U", "U+032D", "", "",
       "U+1E77", "u", "U+032D", "", "",
       "U+1E78", "U", "U+0303", "U+0301", "",
       "U+1E79", "u", "U+0303", "U+0301", "",
       "U+1E7A", "U", "U+0304", "U+0308", "",
       "U+1E7B", "u", "U+0304", "U+0308", "",
       "U+1E7C", "V", "U+0303", "", "",
       "U+1E7D", "v", "U+0303", "", "",
       "U+1E7E", "V", "U+0323", "", "",
       "U+1E7F", "v", "U+0323", "", "",
       "U+1E80", "W", "U+0300", "", "",
       "U+1E81", "w", "U+0300", "", "",
       "U+1E82", "W", "U+0301", "", "",
       "U+1E83", "w", "U+0301", "", "",
       "U+1E84", "W", "U+0308", "", "",
       "U+1E85", "w", "U+0308", "", "",
       "U+1E86", "W", "U+0307", "", "",
       "U+1E87", "w", "U+0307", "", "",
       "U+1E88", "W", "U+0323", "", "",
       "U+1E89", "w", "U+0323", "", "",
       "U+1E8A", "X", "U+0307", "", "",
       "U+1E8B", "x", "U+0307", "", "",
       "U+1E8C", "X", "U+0308", "", "",
       "U+1E8D", "x", "U+0308", "", "",
       "U+1E8E", "Y", "U+0307", "", "",
       "U+1E8F", "y", "U+0307", "", "",
       "U+1E90", "Z", "U+0302", "", "",
       "U+1E91", "z", "U+0302", "", "",
       "U+1E92", "Z", "U+0323", "", "",
       "U+1E93", "z", "U+0323", "", "",
       "U+1E94", "Z", "U+0331", "", "",
       "U+1E95", "z", "U+0331", "", "",
       "U+1E96", "h", "U+0331", "", "",
       "U+1E97", "t", "U+0308", "", "",
       "U+1E98", "w", "U+030A", "", "",
       "U+1E99", "y", "U+030A", "", "",
       "U+1E9B", "U+017F", "U+0307", "", "",
       "U+1EA0", "A", "U+0323", "", "",
       "U+1EA1", "a", "U+0323", "", "",
       "U+1EA2", "A", "U+0309", "", "",
       "U+1EA3", "a", "U+0309", "", "",
       "U+1EA4", "A", "U+0302", "U+0301", "",
       "U+1EA5", "a", "U+0302", "U+0301", "",
       "U+1EA6", "A", "U+0302", "U+0300", "",
       "U+1EA7", "a", "U+0302", "U+0300", "",
       "U+1EA8", "A", "U+0302", "U+0309", "",
       "U+1EA9", "a", "U+0302", "U+0309", "",
       "U+1EAA", "A", "U+0302", "U+0303", "",
       "U+1EAB", "a", "U+0302", "U+0303", "",
       "U+1EAC", "A", "U+0323", "U+0302", "",
       "U+1EAD", "a", "U+0323", "U+0302", "",
       "U+1EAE", "A", "U+0306", "U+0301", "",
       "U+1EAF", "a", "U+0306", "U+0301", "",
       "U+1EB0", "A", "U+0306", "U+0300", "",
       "U+1EB1", "a", "U+0306", "U+0300", "",
       "U+1EB2", "A", "U+0306", "U+0309", "",
       "U+1EB3", "a", "U+0306", "U+0309", "",
       "U+1EB4", "A", "U+0306", "U+0303", "",
       "U+1EB5", "a", "U+0306", "U+0303", "",
       "U+1EB6", "A", "U+0323", "U+0306", "",
       "U+1EB7", "a", "U+0323", "U+0306", "",
       "U+1EB8", "E", "U+0323", "", "",
       "U+1EB9", "e", "U+0323", "", "",
       "U+1EBA", "E", "U+0309", "", "",
       "U+1EBB", "e", "U+0309", "", "",
       "U+1EBC", "E", "U+0303", "", "",
       "U+1EBD", "e", "U+0303", "", "",
       "U+1EBE", "E", "U+0302", "U+0301", "",
       "U+1EBF", "e", "U+0302", "U+0301", "",
       "U+1EC0", "E", "U+0302", "U+0300", "",
       "U+1EC1", "e", "U+0302", "U+0300", "",
       "U+1EC2", "E", "U+0302", "U+0309", "",
       "U+1EC3", "e", "U+0302", "U+0309", "",
       "U+1EC4", "E", "U+0302", "U+0303", "",
       "U+1EC5", "e", "U+0302", "U+0303", "",
       "U+1EC6", "E", "U+0323", "U+0302", "",
       "U+1EC7", "e", "U+0323", "U+0302", "",
       "U+1EC8", "I", "U+0309", "", "",
       "U+1EC9", "i", "U+0309", "", "",
       "U+1ECA", "I", "U+0323", "", "",
       "U+1ECB", "i", "U+0323", "", "",
       "U+1ECC", "O", "U+0323", "", "",
       "U+1ECD", "o", "U+0323", "", "",
       "U+1ECE", "O", "U+0309", "", "",
       "U+1ECF", "o", "U+0309", "", "",
       "U+1ED0", "O", "U+0302", "U+0301", "",
       "U+1ED1", "o", "U+0302", "U+0301", "",
       "U+1ED2", "O", "U+0302", "U+0300", "",
       "U+1ED3", "o", "U+0302", "U+0300", "",
       "U+1ED4", "O", "U+0302", "U+0309", "",
       "U+1ED5", "o", "U+0302", "U+0309", "",
       "U+1ED6", "O", "U+0302", "U+0303", "",
       "U+1ED7", "o", "U+0302", "U+0303", "",
       "U+1ED8", "O", "U+0323", "U+0302", "",
       "U+1ED9", "o", "U+0323", "U+0302", "",
       "U+1EDA", "O", "U+031B", "U+0301", "",
       "U+1EDB", "o", "U+031B", "U+0301", "",
       "U+1EDC", "O", "U+031B", "U+0300", "",
       "U+1EDD", "o", "U+031B", "U+0300", "",
       "U+1EDE", "O", "U+031B", "U+0309", "",
       "U+1EDF", "o", "U+031B", "U+0309", "",
       "U+1EE0", "O", "U+031B", "U+0303", "",
       "U+1EE1", "o", "U+031B", "U+0303", "",
       "U+1EE2", "O", "U+031B", "U+0323", "",
       "U+1EE3", "o", "U+031B", "U+0323", "",
       "U+1EE4", "U", "U+0323", "", "",
       "U+1EE5", "u", "U+0323", "", "",
       "U+1EE6", "U", "U+0309", "", "",
       "U+1EE7", "u", "U+0309", "", "",
       "U+1EE8", "U", "U+031B", "U+0301", "",
       "U+1EE9", "u", "U+031B", "U+0301", "",
       "U+1EEA", "U", "U+031B", "U+0300", "",
       "U+1EEB", "u", "U+031B", "U+0300", "",
       "U+1EEC", "U", "U+031B", "U+0309", "",
       "U+1EED", "u", "U+031B", "U+0309", "",
       "U+1EEE", "U", "U+031B", "U+0303", "",
       "U+1EEF", "u", "U+031B", "U+0303", "",
       "U+1EF0", "U", "U+031B", "U+0323", "",
       "U+1EF1", "u", "U+031B", "U+0323", "",
       "U+1EF2", "Y", "U+0300", "", "",
       "U+1EF3", "y", "U+0300", "", "",
       "U+1EF4", "Y", "U+0323", "", "",
       "U+1EF5", "y", "U+0323", "", "",
       "U+1EF6", "Y", "U+0309", "", "",
       "U+1EF7", "y", "U+0309", "", "",
       "U+1EF8", "Y", "U+0303", "", "",
       "U+1EF9", "y", "U+0303", "", "",
       "U+1F00", "U+03B1", "U+0313", "", "",
       "U+1F01", "U+03B1", "U+0314", "", "",
       "U+1F02", "U+03B1", "U+0313", "U+0300", "",
       "U+1F03", "U+03B1", "U+0314", "U+0300", "",
       "U+1F04", "U+03B1", "U+0313", "U+0301", "",
       "U+1F05", "U+03B1", "U+0314", "U+0301", "",
       "U+1F06", "U+03B1", "U+0313", "U+0342", "",
       "U+1F07", "U+03B1", "U+0314", "U+0342", "",
       "U+1F08", "U+0391", "U+0313", "", "",
       "U+1F09", "U+0391", "U+0314", "", "",
       "U+1F0A", "U+0391", "U+0313", "U+0300", "",
       "U+1F0B", "U+0391", "U+0314", "U+0300", "",
       "U+1F0C", "U+0391", "U+0313", "U+0301", "",
       "U+1F0D", "U+0391", "U+0314", "U+0301", "",
       "U+1F0E", "U+0391", "U+0313", "U+0342", "",
       "U+1F0F", "U+0391", "U+0314", "U+0342", "",
       "U+1F10", "U+03B5", "U+0313", "", "",
       "U+1F11", "U+03B5", "U+0314", "", "",
       "U+1F12", "U+03B5", "U+0313", "U+0300", "",
       "U+1F13", "U+03B5", "U+0314", "U+0300", "",
       "U+1F14", "U+03B5", "U+0313", "U+0301", "",
       "U+1F15", "U+03B5", "U+0314", "U+0301", "",
       "U+1F18", "U+0395", "U+0313", "", "",
       "U+1F19", "U+0395", "U+0314", "", "",
       "U+1F1A", "U+0395", "U+0313", "U+0300", "",
       "U+1F1B", "U+0395", "U+0314", "U+0300", "",
       "U+1F1C", "U+0395", "U+0313", "U+0301", "",
       "U+1F1D", "U+0395", "U+0314", "U+0301", "",
       "U+1F20", "U+03B7", "U+0313", "", "",
       "U+1F21", "U+03B7", "U+0314", "", "",
       "U+1F22", "U+03B7", "U+0313", "U+0300", "",
       "U+1F23", "U+03B7", "U+0314", "U+0300", "",
       "U+1F24", "U+03B7", "U+0313", "U+0301", "",
       "U+1F25", "U+03B7", "U+0314", "U+0301", "",
       "U+1F26", "U+03B7", "U+0313", "U+0342", "",
       "U+1F27", "U+03B7", "U+0314", "U+0342", "",
       "U+1F28", "U+0397", "U+0313", "", "",
       "U+1F29", "U+0397", "U+0314", "", "",
       "U+1F2A", "U+0397", "U+0313", "U+0300", "",
       "U+1F2B", "U+0397", "U+0314", "U+0300", "",
       "U+1F2C", "U+0397", "U+0313", "U+0301", "",
       "U+1F2D", "U+0397", "U+0314", "U+0301", "",
       "U+1F2E", "U+0397", "U+0313", "U+0342", "",
       "U+1F2F", "U+0397", "U+0314", "U+0342", "",
       "U+1F30", "U+03B9", "U+0313", "", "",
       "U+1F31", "U+03B9", "U+0314", "", "",
       "U+1F32", "U+03B9", "U+0313", "U+0300", "",
       "U+1F33", "U+03B9", "U+0314", "U+0300", "",
       "U+1F34", "U+03B9", "U+0313", "U+0301", "",
       "U+1F35", "U+03B9", "U+0314", "U+0301", "",
       "U+1F36", "U+03B9", "U+0313", "U+0342", "",
       "U+1F37", "U+03B9", "U+0314", "U+0342", "",
       "U+1F38", "U+0399", "U+0313", "", "",
       "U+1F39", "U+0399", "U+0314", "", "",
       "U+1F3A", "U+0399", "U+0313", "U+0300", "",
       "U+1F3B", "U+0399", "U+0314", "U+0300", "",
       "U+1F3C", "U+0399", "U+0313", "U+0301", "",
       "U+1F3D", "U+0399", "U+0314", "U+0301", "",
       "U+1F3E", "U+0399", "U+0313", "U+0342", "",
       "U+1F3F", "U+0399", "U+0314", "U+0342", "",
       "U+1F40", "U+03BF", "U+0313", "", "",
       "U+1F41", "U+03BF", "U+0314", "", "",
       "U+1F42", "U+03BF", "U+0313", "U+0300", "",
       "U+1F43", "U+03BF", "U+0314", "U+0300", "",
       "U+1F44", "U+03BF", "U+0313", "U+0301", "",
       "U+1F45", "U+03BF", "U+0314", "U+0301", "",
       "U+1F48", "U+039F", "U+0313", "", "",
       "U+1F49", "U+039F", "U+0314", "", "",
       "U+1F4A", "U+039F", "U+0313", "U+0300", "",
       "U+1F4B", "U+039F", "U+0314", "U+0300", "",
       "U+1F4C", "U+039F", "U+0313", "U+0301", "",
       "U+1F4D", "U+039F", "U+0314", "U+0301", "",
       "U+1F50", "U+03C5", "U+0313", "", "",
       "U+1F51", "U+03C5", "U+0314", "", "",
       "U+1F52", "U+03C5", "U+0313", "U+0300", "",
       "U+1F53", "U+03C5", "U+0314", "U+0300", "",
       "U+1F54", "U+03C5", "U+0313", "U+0301", "",
       "U+1F55", "U+03C5", "U+0314", "U+0301", "",
       "U+1F56", "U+03C5", "U+0313", "U+0342", "",
       "U+1F57", "U+03C5", "U+0314", "U+0342", "",
       "U+1F59", "U+03A5", "U+0314", "", "",
       "U+1F5B", "U+03A5", "U+0314", "U+0300", "",
       "U+1F5D", "U+03A5", "U+0314", "U+0301", "",
       "U+1F5F", "U+03A5", "U+0314", "U+0342", "",
       "U+1F60", "U+03C9", "U+0313", "", "",
       "U+1F61", "U+03C9", "U+0314", "", "",
       "U+1F62", "U+03C9", "U+0313", "U+0300", "",
       "U+1F63", "U+03C9", "U+0314", "U+0300", "",
       "U+1F64", "U+03C9", "U+0313", "U+0301", "",
       "U+1F65", "U+03C9", "U+0314", "U+0301", "",
       "U+1F66", "U+03C9", "U+0313", "U+0342", "",
       "U+1F67", "U+03C9", "U+0314", "U+0342", "",
       "U+1F68", "U+03A9", "U+0313", "", "",
       "U+1F69", "U+03A9", "U+0314", "", "",
       "U+1F6A", "U+03A9", "U+0313", "U+0300", "",
       "U+1F6B", "U+03A9", "U+0314", "U+0300", "",
       "U+1F6C", "U+03A9", "U+0313", "U+0301", "",
       "U+1F6D", "U+03A9", "U+0314", "U+0301", "",
       "U+1F6E", "U+03A9", "U+0313", "U+0342", "",
       "U+1F6F", "U+03A9", "U+0314", "U+0342", "",
       "U+1F70", "U+03B1", "U+0300", "", "",
       "U+1F71", "U+03B1", "U+0301", "", "",
       "U+1F72", "U+03B5", "U+0300", "", "",
       "U+1F73", "U+03B5", "U+0301", "", "",
       "U+1F74", "U+03B7", "U+0300", "", "",
       "U+1F75", "U+03B7", "U+0301", "", "",
       "U+1F76", "U+03B9", "U+0300", "", "",
       "U+1F77", "U+03B9", "U+0301", "", "",
       "U+1F78", "U+03BF", "U+0300", "", "",
       "U+1F79", "U+03BF", "U+0301", "", "",
       "U+1F7A", "U+03C5", "U+0300", "", "",
       "U+1F7B", "U+03C5", "U+0301", "", "",
       "U+1F7C", "U+03C9", "U+0300", "", "",
       "U+1F7D", "U+03C9", "U+0301", "", "",
       "U+1F80", "U+03B1", "U+0313", "U+0345", "",
       "U+1F81", "U+03B1", "U+0314", "U+0345", "",
       "U+1F82", "U+03B1", "U+0313", "U+0300", "U+0345",
       "U+1F83", "U+03B1", "U+0314", "U+0300", "U+0345",
       "U+1F84", "U+03B1", "U+0313", "U+0301", "U+0345",
       "U+1F85", "U+03B1", "U+0314", "U+0301", "U+0345",
       "U+1F86", "U+03B1", "U+0313", "U+0342", "U+0345",
       "U+1F87", "U+03B1", "U+0314", "U+0342", "U+0345",
       "U+1F88", "U+0391", "U+0313", "U+0345", "",
       "U+1F89", "U+0391", "U+0314", "U+0345", "",
       "U+1F8A", "U+0391", "U+0313", "U+0300", "U+0345",
       "U+1F8B", "U+0391", "U+0314", "U+0300", "U+0345",
       "U+1F8C", "U+0391", "U+0313", "U+0301", "U+0345",
       "U+1F8D", "U+0391", "U+0314", "U+0301", "U+0345",
       "U+1F8E", "U+0391", "U+0313", "U+0342", "U+0345",
       "U+1F8F", "U+0391", "U+0314", "U+0342", "U+0345",
       "U+1F90", "U+03B7", "U+0313", "U+0345", "",
       "U+1F91", "U+03B7", "U+0314", "U+0345", "",
       "U+1F92", "U+03B7", "U+0313", "U+0300", "U+0345",
       "U+1F93", "U+03B7", "U+0314", "U+0300", "U+0345",
       "U+1F94", "U+03B7", "U+0313", "U+0301", "U+0345",
       "U+1F95", "U+03B7", "U+0314", "U+0301", "U+0345",
       "U+1F96", "U+03B7", "U+0313", "U+0342", "U+0345",
       "U+1F97", "U+03B7", "U+0314", "U+0342", "U+0345",
       "U+1F98", "U+0397", "U+0313", "U+0345", "",
       "U+1F99", "U+0397", "U+0314", "U+0345", "",
       "U+1F9A", "U+0397", "U+0313", "U+0300", "U+0345",
       "U+1F9B", "U+0397", "U+0314", "U+0300", "U+0345",
       "U+1F9C", "U+0397", "U+0313", "U+0301", "U+0345",
       "U+1F9D", "U+0397", "U+0314", "U+0301", "U+0345",
       "U+1F9E", "U+0397", "U+0313", "U+0342", "U+0345",
       "U+1F9F", "U+0397", "U+0314", "U+0342", "U+0345",
       "U+1FA0", "U+03C9", "U+0313", "U+0345", "",
       "U+1FA1", "U+03C9", "U+0314", "U+0345", "",
       "U+1FA2", "U+03C9", "U+0313", "U+0300", "U+0345",
       "U+1FA3", "U+03C9", "U+0314", "U+0300", "U+0345",
       "U+1FA4", "U+03C9", "U+0313", "U+0301", "U+0345",
       "U+1FA5", "U+03C9", "U+0314", "U+0301", "U+0345",
       "U+1FA6", "U+03C9", "U+0313", "U+0342", "U+0345",
       "U+1FA7", "U+03C9", "U+0314", "U+0342", "U+0345",
       "U+1FA8", "U+03A9", "U+0313", "U+0345", "",
       "U+1FA9", "U+03A9", "U+0314", "U+0345", "",
       "U+1FAA", "U+03A9", "U+0313", "U+0300", "U+0345",
       "U+1FAB", "U+03A9", "U+0314", "U+0300", "U+0345",
       "U+1FAC", "U+03A9", "U+0313", "U+0301", "U+0345",
       "U+1FAD", "U+03A9", "U+0314", "U+0301", "U+0345",
       "U+1FAE", "U+03A9", "U+0313", "U+0342", "U+0345",
       "U+1FAF", "U+03A9", "U+0314", "U+0342", "U+0345",
       "U+1FB0", "U+03B1", "U+0306", "", "",
       "U+1FB1", "U+03B1", "U+0304", "", "",
       "U+1FB2", "U+03B1", "U+0300", "U+0345", "",
       "U+1FB3", "U+03B1", "U+0345", "", "",
       "U+1FB4", "U+03B1", "U+0301", "U+0345", "",
       "U+1FB6", "U+03B1", "U+0342", "", "",
       "U+1FB7", "U+03B1", "U+0342", "U+0345", "",
       "U+1FB8", "U+0391", "U+0306", "", "",
       "U+1FB9", "U+0391", "U+0304", "", "",
       "U+1FBA", "U+0391", "U+0300", "", "",
       "U+1FBB", "U+0391", "U+0301", "", "",
       "U+1FBC", "U+0391", "U+0345", "", "",
       "U+1FBE", "U+03B9", "", "", "",
       "U+1FC1", "U+00A8", "U+0342", "", "",
       "U+1FC2", "U+03B7", "U+0300", "U+0345", "",
       "U+1FC3", "U+03B7", "U+0345", "", "",
       "U+1FC4", "U+03B7", "U+0301", "U+0345", "",
       "U+1FC6", "U+03B7", "U+0342", "", "",
       "U+1FC7", "U+03B7", "U+0342", "U+0345", "",
       "U+1FC8", "U+0395", "U+0300", "", "",
       "U+1FC9", "U+0395", "U+0301", "", "",
       "U+1FCA", "U+0397", "U+0300", "", "",
       "U+1FCB", "U+0397", "U+0301", "", "",
       "U+1FCC", "U+0397", "U+0345", "", "",
       "U+1FCD", "U+1FBF", "U+0300", "", "",
       "U+1FCE", "U+1FBF", "U+0301", "", "",
       "U+1FCF", "U+1FBF", "U+0342", "", "",
       "U+1FD0", "U+03B9", "U+0306", "", "",
       "U+1FD1", "U+03B9", "U+0304", "", "",
       "U+1FD2", "U+03B9", "U+0308", "U+0300", "",
       "U+1FD3", "U+03B9", "U+0308", "U+0301", "",
       "U+1FD6", "U+03B9", "U+0342", "", "",
       "U+1FD7", "U+03B9", "U+0308", "U+0342", "",
       "U+1FD8", "U+0399", "U+0306", "", "",
       "U+1FD9", "U+0399", "U+0304", "", "",
       "U+1FDA", "U+0399", "U+0300", "", "",
       "U+1FDB", "U+0399", "U+0301", "", "",
       "U+1FDD", "U+1FFE", "U+0300", "", "",
       "U+1FDE", "U+1FFE", "U+0301", "", "",
       "U+1FDF", "U+1FFE", "U+0342", "", "",
       "U+1FE0", "U+03C5", "U+0306", "", "",
       "U+1FE1", "U+03C5", "U+0304", "", "",
       "U+1FE2", "U+03C5", "U+0308", "U+0300", "",
       "U+1FE3", "U+03C5", "U+0308", "U+0301", "",
       "U+1FE4", "U+03C1", "U+0313", "", "",
       "U+1FE5", "U+03C1", "U+0314", "", "",
       "U+1FE6", "U+03C5", "U+0342", "", "",
       "U+1FE7", "U+03C5", "U+0308", "U+0342", "",
       "U+1FE8", "U+03A5", "U+0306", "", "",
       "U+1FE9", "U+03A5", "U+0304", "", "",
       "U+1FEA", "U+03A5", "U+0300", "", "",
       "U+1FEB", "U+03A5", "U+0301", "", "",
       "U+1FEC", "U+03A1", "U+0314", "", "",
       "U+1FED", "U+00A8", "U+0300", "", "",
       "U+1FEE", "U+00A8", "U+0301", "", "",
       "U+1FEF", "U+0060", "", "", "",
       "U+1FF2", "U+03C9", "U+0300", "U+0345", "",
       "U+1FF3", "U+03C9", "U+0345", "", "",
       "U+1FF4", "U+03C9", "U+0301", "U+0345", "",
       "U+1FF6", "U+03C9", "U+0342", "", "",
       "U+1FF7", "U+03C9", "U+0342", "U+0345", "",
       "U+1FF8", "U+039F", "U+0300", "", "",
       "U+1FF9", "U+039F", "U+0301", "", "",
       "U+1FFA", "U+03A9", "U+0300", "", "",
       "U+1FFB", "U+03A9", "U+0301", "", "",
       "U+1FFC", "U+03A9", "U+0345", "", "",
       "U+1FFD", "U+00B4", "", "", "",
       "U+2000", "U+2002", "", "", "",
       "U+2001", "U+2003", "", "", "",
       "U+2126", "U+03A9", "", "", "",
       "U+212A", "K", "", "", "",
       "U+212B", "A", "U+030A", "", "",
       "U+219A", "U+2190", "U+0338", "", "",
       "U+219B", "U+2192", "U+0338", "", "",
       "U+21AE", "U+2194", "U+0338", "", "",
       "U+21CD", "U+21D0", "U+0338", "", "",
       "U+21CE", "U+21D4", "U+0338", "", "",
       "U+21CF", "U+21D2", "U+0338", "", "",
       "U+2204", "U+2203", "U+0338", "", "",
       "U+2209", "U+2208", "U+0338", "", "",
       "U+220C", "U+220B", "U+0338", "", "",
       "U+2224", "U+2223", "U+0338", "", "",
       "U+2226", "U+2225", "U+0338", "", "",
       "U+2241", "U+223C", "U+0338", "", "",
       "U+2244", "U+2243", "U+0338", "", "",
       "U+2247", "U+2245", "U+0338", "", "",
       "U+2249", "U+2248", "U+0338", "", "",
       "U+2260", "=", "U+0338", "", "",
       "U+2262", "U+2261", "U+0338", "", "",
       "U+226D", "U+224D", "U+0338", "", "",
       "U+226E", "<", "U+0338", "", "",
       "U+226F", ">", "U+0338", "", "",
       "U+2270", "U+2264", "U+0338", "", "",
       "U+2271", "U+2265", "U+0338", "", "",
       "U+2274", "U+2272", "U+0338", "", "",
       "U+2275", "U+2273", "U+0338", "", "",
       "U+2278", "U+2276", "U+0338", "", "",
       "U+2279", "U+2277", "U+0338", "", "",
       "U+2280", "U+227A", "U+0338", "", "",
       "U+2281", "U+227B", "U+0338", "", "",
       "U+2284", "U+2282", "U+0338", "", "",
       "U+2285", "U+2283", "U+0338", "", "",
       "U+2288", "U+2286", "U+0338", "", "",
       "U+2289", "U+2287", "U+0338", "", "",
       "U+22AC", "U+22A2", "U+0338", "", "",
       "U+22AD", "U+22A8", "U+0338", "", "",
       "U+22AE", "U+22A9", "U+0338", "", "",
       "U+22AF", "U+22AB", "U+0338", "", "",
       "U+22E0", "U+227C", "U+0338", "", "",
       "U+22E1", "U+227D", "U+0338", "", "",
       "U+22E2", "U+2291", "U+0338", "", "",
       "U+22E3", "U+2292", "U+0338", "", "",
       "U+22EA", "U+22B2", "U+0338", "", "",
       "U+22EB", "U+22B3", "U+0338", "", "",
       "U+22EC", "U+22B4", "U+0338", "", "",
       "U+22ED", "U+22B5", "U+0338", "", "",
       "U+2329", "U+3008", "", "", "",
       "U+232A", "U+3009", "", "", "",
       "U+2ADC", "U+2ADD", "U+0338", "", "",
       "U+304C", "U+304B", "U+3099", "", "",
       "U+304E", "U+304D", "U+3099", "", "",
       "U+3050", "U+304F", "U+3099", "", "",
       "U+3052", "U+3051", "U+3099", "", "",
       "U+3054", "U+3053", "U+3099", "", "",
       "U+3056", "U+3055", "U+3099", "", "",
       "U+3058", "U+3057", "U+3099", "", "",
       "U+305A", "U+3059", "U+3099", "", "",
       "U+305C", "U+305B", "U+3099", "", "",
       "U+305E", "U+305D", "U+3099", "", "",
       "U+3060", "U+305F", "U+3099", "", "",
       "U+3062", "U+3061", "U+3099", "", "",
       "U+3065", "U+3064", "U+3099", "", "",
       "U+3067", "U+3066", "U+3099", "", "",
       "U+3069", "U+3068", "U+3099", "", "",
       "U+3070", "U+306F", "U+3099", "", "",
       "U+3071", "U+306F", "U+309A", "", "",
       "U+3073", "U+3072", "U+3099", "", "",
       "U+3074", "U+3072", "U+309A", "", "",
       "U+3076", "U+3075", "U+3099", "", "",
       "U+3077", "U+3075", "U+309A", "", "",
       "U+3079", "U+3078", "U+3099", "", "",
       "U+307A", "U+3078", "U+309A", "", "",
       "U+307C", "U+307B", "U+3099", "", "",
       "U+307D", "U+307B", "U+309A", "", "",
       "U+3094", "U+3046", "U+3099", "", "",
       "U+309E", "U+309D", "U+3099", "", "",
       "U+30AC", "U+30AB", "U+3099", "", "",
       "U+30AE", "U+30AD", "U+3099", "", "",
       "U+30B0", "U+30AF", "U+3099", "", "",
       "U+30B2", "U+30B1", "U+3099", "", "",
       "U+30B4", "U+30B3", "U+3099", "", "",
       "U+30B6", "U+30B5", "U+3099", "", "",
       "U+30B8", "U+30B7", "U+3099", "", "",
       "U+30BA", "U+30B9", "U+3099", "", "",
       "U+30BC", "U+30BB", "U+3099", "", "",
       "U+30BE", "U+30BD", "U+3099", "", "",
       "U+30C0", "U+30BF", "U+3099", "", "",
       "U+30C2", "U+30C1", "U+3099", "", "",
       "U+30C5", "U+30C4", "U+3099", "", "",
       "U+30C7", "U+30C6", "U+3099", "", "",
       "U+30C9", "U+30C8", "U+3099", "", "",
       "U+30D0", "U+30CF", "U+3099", "", "",
       "U+30D1", "U+30CF", "U+309A", "", "",
       "U+30D3", "U+30D2", "U+3099", "", "",
       "U+30D4", "U+30D2", "U+309A", "", "",
       "U+30D6", "U+30D5", "U+3099", "", "",
       "U+30D7", "U+30D5", "U+309A", "", "",
       "U+30D9", "U+30D8", "U+3099", "", "",
       "U+30DA", "U+30D8", "U+309A", "", "",
       "U+30DC", "U+30DB", "U+3099", "", "",
       "U+30DD", "U+30DB", "U+309A", "", "",
       "U+30F4", "U+30A6", "U+3099", "", "",
       "U+30F7", "U+30EF", "U+3099", "", "",
       "U+30F8", "U+30F0", "U+3099", "", "",
       "U+30F9", "U+30F1", "U+3099", "", "",
       "U+30FA", "U+30F2", "U+3099", "", "",
       "U+30FE", "U+30FD", "U+3099", "", "",
       "U+F900", "U+8C48", "", "", "",
       "U+F901", "U+66F4", "", "", "",
       "U+F902", "U+8ECA", "", "", "",
       "U+F903", "U+8CC8", "", "", "",
       "U+F904", "U+6ED1", "", "", "",
       "U+F905", "U+4E32", "", "", "",
       "U+F906", "U+53E5", "", "", "",
       "U+F907", "U+9F9C", "", "", "",
       "U+F908", "U+9F9C", "", "", "",
       "U+F909", "U+5951", "", "", "",
       "U+F90A", "U+91D1", "", "", "",
       "U+F90B", "U+5587", "", "", "",
       "U+F90C", "U+5948", "", "", "",
       "U+F90D", "U+61F6", "", "", "",
       "U+F90E", "U+7669", "", "", "",
       "U+F90F", "U+7F85", "", "", "",
       "U+F910", "U+863F", "", "", "",
       "U+F911", "U+87BA", "", "", "",
       "U+F912", "U+88F8", "", "", "",
       "U+F913", "U+908F", "", "", "",
       "U+F914", "U+6A02", "", "", "",
       "U+F915", "U+6D1B", "", "", "",
       "U+F916", "U+70D9", "", "", "",
       "U+F917", "U+73DE", "", "", "",
       "U+F918", "U+843D", "", "", "",
       "U+F919", "U+916A", "", "", "",
       "U+F91A", "U+99F1", "", "", "",
       "U+F91B", "U+4E82", "", "", "",
       "U+F91C", "U+5375", "", "", "",
       "U+F91D", "U+6B04", "", "", "",
       "U+F91E", "U+721B", "", "", "",
       "U+F91F", "U+862D", "", "", "",
       "U+F920", "U+9E1E", "", "", "",
       "U+F921", "U+5D50", "", "", "",
       "U+F922", "U+6FEB", "", "", "",
       "U+F923", "U+85CD", "", "", "",
       "U+F924", "U+8964", "", "", "",
       "U+F925", "U+62C9", "", "", "",
       "U+F926", "U+81D8", "", "", "",
       "U+F927", "U+881F", "", "", "",
       "U+F928", "U+5ECA", "", "", "",
       "U+F929", "U+6717", "", "", "",
       "U+F92A", "U+6D6A", "", "", "",
       "U+F92B", "U+72FC", "", "", "",
       "U+F92C", "U+90CE", "", "", "",
       "U+F92D", "U+4F86", "", "", "",
       "U+F92E", "U+51B7", "", "", "",
       "U+F92F", "U+52DE", "", "", "",
       "U+F930", "U+64C4", "", "", "",
       "U+F931", "U+6AD3", "", "", "",
       "U+F932", "U+7210", "", "", "",
       "U+F933", "U+76E7", "", "", "",
       "U+F934", "U+8001", "", "", "",
       "U+F935", "U+8606", "", "", "",
       "U+F936", "U+865C", "", "", "",
       "U+F937", "U+8DEF", "", "", "",
       "U+F938", "U+9732", "", "", "",
       "U+F939", "U+9B6F", "", "", "",
       "U+F93A", "U+9DFA", "", "", "",
       "U+F93B", "U+788C", "", "", "",
       "U+F93C", "U+797F", "", "", "",
       "U+F93D", "U+7DA0", "", "", "",
       "U+F93E", "U+83C9", "", "", "",
       "U+F93F", "U+9304", "", "", "",
       "U+F940", "U+9E7F", "", "", "",
       "U+F941", "U+8AD6", "", "", "",
       "U+F942", "U+58DF", "", "", "",
       "U+F943", "U+5F04", "", "", "",
       "U+F944", "U+7C60", "", "", "",
       "U+F945", "U+807E", "", "", "",
       "U+F946", "U+7262", "", "", "",
       "U+F947", "U+78CA", "", "", "",
       "U+F948", "U+8CC2", "", "", "",
       "U+F949", "U+96F7", "", "", "",
       "U+F94A", "U+58D8", "", "", "",
       "U+F94B", "U+5C62", "", "", "",
       "U+F94C", "U+6A13", "", "", "",
       "U+F94D", "U+6DDA", "", "", "",
       "U+F94E", "U+6F0F", "", "", "",
       "U+F94F", "U+7D2F", "", "", "",
       "U+F950", "U+7E37", "", "", "",
       "U+F951", "U+964B", "", "", "",
       "U+F952", "U+52D2", "", "", "",
       "U+F953", "U+808B", "", "", "",
       "U+F954", "U+51DC", "", "", "",
       "U+F955", "U+51CC", "", "", "",
       "U+F956", "U+7A1C", "", "", "",
       "U+F957", "U+7DBE", "", "", "",
       "U+F958", "U+83F1", "", "", "",
       "U+F959", "U+9675", "", "", "",
       "U+F95A", "U+8B80", "", "", "",
       "U+F95B", "U+62CF", "", "", "",
       "U+F95C", "U+6A02", "", "", "",
       "U+F95D", "U+8AFE", "", "", "",
       "U+F95E", "U+4E39", "", "", "",
       "U+F95F", "U+5BE7", "", "", "",
       "U+F960", "U+6012", "", "", "",
       "U+F961", "U+7387", "", "", "",
       "U+F962", "U+7570", "", "", "",
       "U+F963", "U+5317", "", "", "",
       "U+F964", "U+78FB", "", "", "",
       "U+F965", "U+4FBF", "", "", "",
       "U+F966", "U+5FA9", "", "", "",
       "U+F967", "U+4E0D", "", "", "",
       "U+F968", "U+6CCC", "", "", "",
       "U+F969", "U+6578", "", "", "",
       "U+F96A", "U+7D22", "", "", "",
       "U+F96B", "U+53C3", "", "", "",
       "U+F96C", "U+585E", "", "", "",
       "U+F96D", "U+7701", "", "", "",
       "U+F96E", "U+8449", "", "", "",
       "U+F96F", "U+8AAA", "", "", "",
       "U+F970", "U+6BBA", "", "", "",
       "U+F971", "U+8FB0", "", "", "",
       "U+F972", "U+6C88", "", "", "",
       "U+F973", "U+62FE", "", "", "",
       "U+F974", "U+82E5", "", "", "",
       "U+F975", "U+63A0", "", "", "",
       "U+F976", "U+7565", "", "", "",
       "U+F977", "U+4EAE", "", "", "",
       "U+F978", "U+5169", "", "", "",
       "U+F979", "U+51C9", "", "", "",
       "U+F97A", "U+6881", "", "", "",
       "U+F97B", "U+7CE7", "", "", "",
       "U+F97C", "U+826F", "", "", "",
       "U+F97D", "U+8AD2", "", "", "",
       "U+F97E", "U+91CF", "", "", "",
       "U+F97F", "U+52F5", "", "", "",
       "U+F980", "U+5442", "", "", "",
       "U+F981", "U+5973", "", "", "",
       "U+F982", "U+5EEC", "", "", "",
       "U+F983", "U+65C5", "", "", "",
       "U+F984", "U+6FFE", "", "", "",
       "U+F985", "U+792A", "", "", "",
       "U+F986", "U+95AD", "", "", "",
       "U+F987", "U+9A6A", "", "", "",
       "U+F988", "U+9E97", "", "", "",
       "U+F989", "U+9ECE", "", "", "",
       "U+F98A", "U+529B", "", "", "",
       "U+F98B", "U+66C6", "", "", "",
       "U+F98C", "U+6B77", "", "", "",
       "U+F98D", "U+8F62", "", "", "",
       "U+F98E", "U+5E74", "", "", "",
       "U+F98F", "U+6190", "", "", "",
       "U+F990", "U+6200", "", "", "",
       "U+F991", "U+649A", "", "", "",
       "U+F992", "U+6F23", "", "", "",
       "U+F993", "U+7149", "", "", "",
       "U+F994", "U+7489", "", "", "",
       "U+F995", "U+79CA", "", "", "",
       "U+F996", "U+7DF4", "", "", "",
       "U+F997", "U+806F", "", "", "",
       "U+F998", "U+8F26", "", "", "",
       "U+F999", "U+84EE", "", "", "",
       "U+F99A", "U+9023", "", "", "",
       "U+F99B", "U+934A", "", "", "",
       "U+F99C", "U+5217", "", "", "",
       "U+F99D", "U+52A3", "", "", "",
       "U+F99E", "U+54BD", "", "", "",
       "U+F99F", "U+70C8", "", "", "",
       "U+F9A0", "U+88C2", "", "", "",
       "U+F9A1", "U+8AAA", "", "", "",
       "U+F9A2", "U+5EC9", "", "", "",
       "U+F9A3", "U+5FF5", "", "", "",
       "U+F9A4", "U+637B", "", "", "",
       "U+F9A5", "U+6BAE", "", "", "",
       "U+F9A6", "U+7C3E", "", "", "",
       "U+F9A7", "U+7375", "", "", "",
       "U+F9A8", "U+4EE4", "", "", "",
       "U+F9A9", "U+56F9", "", "", "",
       "U+F9AA", "U+5BE7", "", "", "",
       "U+F9AB", "U+5DBA", "", "", "",
       "U+F9AC", "U+601C", "", "", "",
       "U+F9AD", "U+73B2", "", "", "",
       "U+F9AE", "U+7469", "", "", "",
       "U+F9AF", "U+7F9A", "", "", "",
       "U+F9B0", "U+8046", "", "", "",
       "U+F9B1", "U+9234", "", "", "",
       "U+F9B2", "U+96F6", "", "", "",
       "U+F9B3", "U+9748", "", "", "",
       "U+F9B4", "U+9818", "", "", "",
       "U+F9B5", "U+4F8B", "", "", "",
       "U+F9B6", "U+79AE", "", "", "",
       "U+F9B7", "U+91B4", "", "", "",
       "U+F9B8", "U+96B8", "", "", "",
       "U+F9B9", "U+60E1", "", "", "",
       "U+F9BA", "U+4E86", "", "", "",
       "U+F9BB", "U+50DA", "", "", "",
       "U+F9BC", "U+5BEE", "", "", "",
       "U+F9BD", "U+5C3F", "", "", "",
       "U+F9BE", "U+6599", "", "", "",
       "U+F9BF", "U+6A02", "", "", "",
       "U+F9C0", "U+71CE", "", "", "",
       "U+F9C1", "U+7642", "", "", "",
       "U+F9C2", "U+84FC", "", "", "",
       "U+F9C3", "U+907C", "", "", "",
       "U+F9C4", "U+9F8D", "", "", "",
       "U+F9C5", "U+6688", "", "", "",
       "U+F9C6", "U+962E", "", "", "",
       "U+F9C7", "U+5289", "", "", "",
       "U+F9C8", "U+677B", "", "", "",
       "U+F9C9", "U+67F3", "", "", "",
       "U+F9CA", "U+6D41", "", "", "",
       "U+F9CB", "U+6E9C", "", "", "",
       "U+F9CC", "U+7409", "", "", "",
       "U+F9CD", "U+7559", "", "", "",
       "U+F9CE", "U+786B", "", "", "",
       "U+F9CF", "U+7D10", "", "", "",
       "U+F9D0", "U+985E", "", "", "",
       "U+F9D1", "U+516D", "", "", "",
       "U+F9D2", "U+622E", "", "", "",
       "U+F9D3", "U+9678", "", "", "",
       "U+F9D4", "U+502B", "", "", "",
       "U+F9D5", "U+5D19", "", "", "",
       "U+F9D6", "U+6DEA", "", "", "",
       "U+F9D7", "U+8F2A", "", "", "",
       "U+F9D8", "U+5F8B", "", "", "",
       "U+F9D9", "U+6144", "", "", "",
       "U+F9DA", "U+6817", "", "", "",
       "U+F9DB", "U+7387", "", "", "",
       "U+F9DC", "U+9686", "", "", "",
       "U+F9DD", "U+5229", "", "", "",
       "U+F9DE", "U+540F", "", "", "",
       "U+F9DF", "U+5C65", "", "", "",
       "U+F9E0", "U+6613", "", "", "",
       "U+F9E1", "U+674E", "", "", "",
       "U+F9E2", "U+68A8", "", "", "",
       "U+F9E3", "U+6CE5", "", "", "",
       "U+F9E4", "U+7406", "", "", "",
       "U+F9E5", "U+75E2", "", "", "",
       "U+F9E6", "U+7F79", "", "", "",
       "U+F9E7", "U+88CF", "", "", "",
       "U+F9E8", "U+88E1", "", "", "",
       "U+F9E9", "U+91CC", "", "", "",
       "U+F9EA", "U+96E2", "", "", "",
       "U+F9EB", "U+533F", "", "", "",
       "U+F9EC", "U+6EBA", "", "", "",
       "U+F9ED", "U+541D", "", "", "",
       "U+F9EE", "U+71D0", "", "", "",
       "U+F9EF", "U+7498", "", "", "",
       "U+F9F0", "U+85FA", "", "", "",
       "U+F9F1", "U+96A3", "", "", "",
       "U+F9F2", "U+9C57", "", "", "",
       "U+F9F3", "U+9E9F", "", "", "",
       "U+F9F4", "U+6797", "", "", "",
       "U+F9F5", "U+6DCB", "", "", "",
       "U+F9F6", "U+81E8", "", "", "",
       "U+F9F7", "U+7ACB", "", "", "",
       "U+F9F8", "U+7B20", "", "", "",
       "U+F9F9", "U+7C92", "", "", "",
       "U+F9FA", "U+72C0", "", "", "",
       "U+F9FB", "U+7099", "", "", "",
       "U+F9FC", "U+8B58", "", "", "",
       "U+F9FD", "U+4EC0", "", "", "",
       "U+F9FE", "U+8336", "", "", "",
       "U+F9FF", "U+523A", "", "", "",
       "U+FA00", "U+5207", "", "", "",
       "U+FA01", "U+5EA6", "", "", "",
       "U+FA02", "U+62D3", "", "", "",
       "U+FA03", "U+7CD6", "", "", "",
       "U+FA04", "U+5B85", "", "", "",
       "U+FA05", "U+6D1E", "", "", "",
       "U+FA06", "U+66B4", "", "", "",
       "U+FA07", "U+8F3B", "", "", "",
       "U+FA08", "U+884C", "", "", "",
       "U+FA09", "U+964D", "", "", "",
       "U+FA0A", "U+898B", "", "", "",
       "U+FA0B", "U+5ED3", "", "", "",
       "U+FA0C", "U+5140", "", "", "",
       "U+FA0D", "U+55C0", "", "", "",
       "U+FA10", "U+585A", "", "", "",
       "U+FA12", "U+6674", "", "", "",
       "U+FA15", "U+51DE", "", "", "",
       "U+FA16", "U+732A", "", "", "",
       "U+FA17", "U+76CA", "", "", "",
       "U+FA18", "U+793C", "", "", "",
       "U+FA19", "U+795E", "", "", "",
       "U+FA1A", "U+7965", "", "", "",
       "U+FA1B", "U+798F", "", "", "",
       "U+FA1C", "U+9756", "", "", "",
       "U+FA1D", "U+7CBE", "", "", "",
       "U+FA1E", "U+7FBD", "", "", "",
       "U+FA20", "U+8612", "", "", "",
       "U+FA22", "U+8AF8", "", "", "",
       "U+FA25", "U+9038", "", "", "",
       "U+FA26", "U+90FD", "", "", "",
       "U+FA2A", "U+98EF", "", "", "",
       "U+FA2B", "U+98FC", "", "", "",
       "U+FA2C", "U+9928", "", "", "",
       "U+FA2D", "U+9DB4", "", "", "",
       "U+FA2E", "U+90DE", "", "", "",
       "U+FA2F", "U+96B7", "", "", "",
       "U+FA30", "U+4FAE", "", "", "",
       "U+FA31", "U+50E7", "", "", "",
       "U+FA32", "U+514D", "", "", "",
       "U+FA33", "U+52C9", "", "", "",
       "U+FA34", "U+52E4", "", "", "",
       "U+FA35", "U+5351", "", "", "",
       "U+FA36", "U+559D", "", "", "",
       "U+FA37", "U+5606", "", "", "",
       "U+FA38", "U+5668", "", "", "",
       "U+FA39", "U+5840", "", "", "",
       "U+FA3A", "U+58A8", "", "", "",
       "U+FA3B", "U+5C64", "", "", "",
       "U+FA3C", "U+5C6E", "", "", "",
       "U+FA3D", "U+6094", "", "", "",
       "U+FA3E", "U+6168", "", "", "",
       "U+FA3F", "U+618E", "", "", "",
       "U+FA40", "U+61F2", "", "", "",
       "U+FA41", "U+654F", "", "", "",
       "U+FA42", "U+65E2", "", "", "",
       "U+FA43", "U+6691", "", "", "",
       "U+FA44", "U+6885", "", "", "",
       "U+FA45", "U+6D77", "", "", "",
       "U+FA46", "U+6E1A", "", "", "",
       "U+FA47", "U+6F22", "", "", "",
       "U+FA48", "U+716E", "", "", "",
       "U+FA49", "U+722B", "", "", "",
       "U+FA4A", "U+7422", "", "", "",
       "U+FA4B", "U+7891", "", "", "",
       "U+FA4C", "U+793E", "", "", "",
       "U+FA4D", "U+7949", "", "", "",
       "U+FA4E", "U+7948", "", "", "",
       "U+FA4F", "U+7950", "", "", "",
       "U+FA50", "U+7956", "", "", "",
       "U+FA51", "U+795D", "", "", "",
       "U+FA52", "U+798D", "", "", "",
       "U+FA53", "U+798E", "", "", "",
       "U+FA54", "U+7A40", "", "", "",
       "U+FA55", "U+7A81", "", "", "",
       "U+FA56", "U+7BC0", "", "", "",
       "U+FA57", "U+7DF4", "", "", "",
       "U+FA58", "U+7E09", "", "", "",
       "U+FA59", "U+7E41", "", "", "",
       "U+FA5A", "U+7F72", "", "", "",
       "U+FA5B", "U+8005", "", "", "",
       "U+FA5C", "U+81ED", "", "", "",
       "U+FA5D", "U+8279", "", "", "",
       "U+FA5E", "U+8279", "", "", "",
       "U+FA5F", "U+8457", "", "", "",
       "U+FA60", "U+8910", "", "", "",
       "U+FA61", "U+8996", "", "", "",
       "U+FA62", "U+8B01", "", "", "",
       "U+FA63", "U+8B39", "", "", "",
       "U+FA64", "U+8CD3", "", "", "",
       "U+FA65", "U+8D08", "", "", "",
       "U+FA66", "U+8FB6", "", "", "",
       "U+FA67", "U+9038", "", "", "",
       "U+FA68", "U+96E3", "", "", "",
       "U+FA69", "U+97FF", "", "", "",
       "U+FA6A", "U+983B", "", "", "",
       "U+FA6B", "U+6075", "", "", "",
       "U+FA6C", "U+D850", "U+DEEE", "", "",
       "U+FA6D", "U+8218", "", "", "",
       "U+FA70", "U+4E26", "", "", "",
       "U+FA71", "U+51B5", "", "", "",
       "U+FA72", "U+5168", "", "", "",
       "U+FA73", "U+4F80", "", "", "",
       "U+FA74", "U+5145", "", "", "",
       "U+FA75", "U+5180", "", "", "",
       "U+FA76", "U+52C7", "", "", "",
       "U+FA77", "U+52FA", "", "", "",
       "U+FA78", "U+559D", "", "", "",
       "U+FA79", "U+5555", "", "", "",
       "U+FA7A", "U+5599", "", "", "",
       "U+FA7B", "U+55E2", "", "", "",
       "U+FA7C", "U+585A", "", "", "",
       "U+FA7D", "U+58B3", "", "", "",
       "U+FA7E", "U+5944", "", "", "",
       "U+FA7F", "U+5954", "", "", "",
       "U+FA80", "U+5A62", "", "", "",
       "U+FA81", "U+5B28", "", "", "",
       "U+FA82", "U+5ED2", "", "", "",
       "U+FA83", "U+5ED9", "", "", "",
       "U+FA84", "U+5F69", "", "", "",
       "U+FA85", "U+5FAD", "", "", "",
       "U+FA86", "U+60D8", "", "", "",
       "U+FA87", "U+614E", "", "", "",
       "U+FA88", "U+6108", "", "", "",
       "U+FA89", "U+618E", "", "", "",
       "U+FA8A", "U+6160", "", "", "",
       "U+FA8B", "U+61F2", "", "", "",
       "U+FA8C", "U+6234", "", "", "",
       "U+FA8D", "U+63C4", "", "", "",
       "U+FA8E", "U+641C", "", "", "",
       "U+FA8F", "U+6452", "", "", "",
       "U+FA90", "U+6556", "", "", "",
       "U+FA91", "U+6674", "", "", "",
       "U+FA92", "U+6717", "", "", "",
       "U+FA93", "U+671B", "", "", "",
       "U+FA94", "U+6756", "", "", "",
       "U+FA95", "U+6B79", "", "", "",
       "U+FA96", "U+6BBA", "", "", "",
       "U+FA97", "U+6D41", "", "", "",
       "U+FA98", "U+6EDB", "", "", "",
       "U+FA99", "U+6ECB", "", "", "",
       "U+FA9A", "U+6F22", "", "", "",
       "U+FA9B", "U+701E", "", "", "",
       "U+FA9C", "U+716E", "", "", "",
       "U+FA9D", "U+77A7", "", "", "",
       "U+FA9E", "U+7235", "", "", "",
       "U+FA9F", "U+72AF", "", "", "",
       "U+FAA0", "U+732A", "", "", "",
       "U+FAA1", "U+7471", "", "", "",
       "U+FAA2", "U+7506", "", "", "",
       "U+FAA3", "U+753B", "", "", "",
       "U+FAA4", "U+761D", "", "", "",
       "U+FAA5", "U+761F", "", "", "",
       "U+FAA6", "U+76CA", "", "", "",
       "U+FAA7", "U+76DB", "", "", "",
       "U+FAA8", "U+76F4", "", "", "",
       "U+FAA9", "U+774A", "", "", "",
       "U+FAAA", "U+7740", "", "", "",
       "U+FAAB", "U+78CC", "", "", "",
       "U+FAAC", "U+7AB1", "", "", "",
       "U+FAAD", "U+7BC0", "", "", "",
       "U+FAAE", "U+7C7B", "", "", "",
       "U+FAAF", "U+7D5B", "", "", "",
       "U+FAB0", "U+7DF4", "", "", "",
       "U+FAB1", "U+7F3E", "", "", "",
       "U+FAB2", "U+8005", "", "", "",
       "U+FAB3", "U+8352", "", "", "",
       "U+FAB4", "U+83EF", "", "", "",
       "U+FAB5", "U+8779", "", "", "",
       "U+FAB6", "U+8941", "", "", "",
       "U+FAB7", "U+8986", "", "", "",
       "U+FAB8", "U+8996", "", "", "",
       "U+FAB9", "U+8ABF", "", "", "",
       "U+FABA", "U+8AF8", "", "", "",
       "U+FABB", "U+8ACB", "", "", "",
       "U+FABC", "U+8B01", "", "", "",
       "U+FABD", "U+8AFE", "", "", "",
       "U+FABE", "U+8AED", "", "", "",
       "U+FABF", "U+8B39", "", "", "",
       "U+FAC0", "U+8B8A", "", "", "",
       "U+FAC1", "U+8D08", "", "", "",
       "U+FAC2", "U+8F38", "", "", "",
       "U+FAC3", "U+9072", "", "", "",
       "U+FAC4", "U+9199", "", "", "",
       "U+FAC5", "U+9276", "", "", "",
       "U+FAC6", "U+967C", "", "", "",
       "U+FAC7", "U+96E3", "", "", "",
       "U+FAC8", "U+9756", "", "", "",
       "U+FAC9", "U+97DB", "", "", "",
       "U+FACA", "U+97FF", "", "", "",
       "U+FACB", "U+980B", "", "", "",
       "U+FACC", "U+983B", "", "", "",
       "U+FACD", "U+9B12", "", "", "",
       "U+FACE", "U+9F9C", "", "", "",
       "U+FACF", "U+D84A", "U+DC4A", "", "",
       "U+FAD0", "U+D84A", "U+DC44", "", "",
       "U+FAD1", "U+D84C", "U+DFD5", "", "",
       "U+FAD2", "U+3B9D", "", "", "",
       "U+FAD3", "U+4018", "", "", "",
       "U+FAD4", "U+4039", "", "", "",
       "U+FAD5", "U+D854", "U+DE49", "", "",
       "U+FAD6", "U+D857", "U+DCD0", "", "",
       "U+FAD7", "U+D85F", "U+DED3", "", "",
       "U+FAD8", "U+9F43", "", "", "",
       "U+FAD9", "U+9F8E", "", "", "",
       "U+FB1D", "U+05D9", "U+05B4", "", "",
       "U+FB1F", "U+05F2", "U+05B7", "", "",
       "U+FB2A", "U+05E9", "U+05C1", "", "",
       "U+FB2B", "U+05E9", "U+05C2", "", "",
       "U+FB2C", "U+05E9", "U+05BC", "U+05C1", "",
       "U+FB2D", "U+05E9", "U+05BC", "U+05C2", "",
       "U+FB2E", "U+05D0", "U+05B7", "", "",
       "U+FB2F", "U+05D0", "U+05B8", "", "",
       "U+FB30", "U+05D0", "U+05BC", "", "",
       "U+FB31", "U+05D1", "U+05BC", "", "",
       "U+FB32", "U+05D2", "U+05BC", "", "",
       "U+FB33", "U+05D3", "U+05BC", "", "",
       "U+FB34", "U+05D4", "U+05BC", "", "",
       "U+FB35", "U+05D5", "U+05BC", "", "",
       "U+FB36", "U+05D6", "U+05BC", "", "",
       "U+FB38", "U+05D8", "U+05BC", "", "",
       "U+FB39", "U+05D9", "U+05BC", "", "",
       "U+FB3A", "U+05DA", "U+05BC", "", "",
       "U+FB3B", "U+05DB", "U+05BC", "", "",
       "U+FB3C", "U+05DC", "U+05BC", "", "",
       "U+FB3E", "U+05DE", "U+05BC", "", "",
       "U+FB40", "U+05E0", "U+05BC", "", "",
       "U+FB41", "U+05E1", "U+05BC", "", "",
       "U+FB43", "U+05E3", "U+05BC", "", "",
       "U+FB44", "U+05E4", "U+05BC", "", "",
       "U+FB46", "U+05E6", "U+05BC", "", "",
       "U+FB47", "U+05E7", "U+05BC", "", "",
       "U+FB48", "U+05E8", "U+05BC", "", "",
       "U+FB49", "U+05E9", "U+05BC", "", "",
       "U+FB4A", "U+05EA", "U+05BC", "", "",
       "U+FB4B", "U+05D5", "U+05B9", "", "",
       "U+FB4C", "U+05D1", "U+05BF", "", "",
       "U+FB4D", "U+05DB", "U+05BF", "", "",
       "U+FB4E", "U+05E4", "U+05BF", "", "" >>

\* likewise the characters outside the Basic Multilingual Plane
NFDTabelaAstral ==
    <<
       "U+D801U+DDC9", "U+D801", "U+DDD2", "U+0307", "", "", "",
       "U+D801U+DDE4", "U+D801", "U+DDDA", "U+0307", "", "", "",
       "U+D804U+DC9A", "U+D804", "U+DC99", "U+D804", "U+DCBA", "", "",
       "U+D804U+DC9C", "U+D804", "U+DC9B", "U+D804", "U+DCBA", "", "",
       "U+D804U+DCAB", "U+D804", "U+DCA5", "U+D804", "U+DCBA", "", "",
       "U+D804U+DD2E", "U+D804", "U+DD31", "U+D804", "U+DD27", "", "",
       "U+D804U+DD2F", "U+D804", "U+DD32", "U+D804", "U+DD27", "", "",
       "U+D804U+DF4B", "U+D804", "U+DF47", "U+D804", "U+DF3E", "", "",
       "U+D804U+DF4C", "U+D804", "U+DF47", "U+D804", "U+DF57", "", "",
       "U+D804U+DF83", "U+D804", "U+DF82", "U+D804", "U+DFC9", "", "",
       "U+D804U+DF85", "U+D804", "U+DF84", "U+D804", "U+DFBB", "", "",
       "U+D804U+DF8E", "U+D804", "U+DF8B", "U+D804", "U+DFC2", "", "",
       "U+D804U+DF91", "U+D804", "U+DF90", "U+D804", "U+DFC9", "", "",
       "U+D804U+DFC5", "U+D804", "U+DFC2", "U+D804", "U+DFC2", "", "",
       "U+D804U+DFC7", "U+D804", "U+DFC2", "U+D804", "U+DFB8", "", "",
       "U+D804U+DFC8", "U+D804", "U+DFC2", "U+D804", "U+DFC9", "", "",
       "U+D805U+DCBB", "U+D805", "U+DCB9", "U+D805", "U+DCBA", "", "",
       "U+D805U+DCBC", "U+D805", "U+DCB9", "U+D805", "U+DCB0", "", "",
       "U+D805U+DCBE", "U+D805", "U+DCB9", "U+D805", "U+DCBD", "", "",
       "U+D805U+DDBA", "U+D805", "U+DDB8", "U+D805", "U+DDAF", "", "",
       "U+D805U+DDBB", "U+D805", "U+DDB9", "U+D805", "U+DDAF", "", "",
       "U+D806U+DD38", "U+D806", "U+DD35", "U+D806", "U+DD30", "", "",
       "U+D818U+DD21", "U+D818", "U+DD1E", "U+D818", "U+DD1E", "", "",
       "U+D818U+DD22", "U+D818", "U+DD1E", "U+D818", "U+DD29", "", "",
       "U+D818U+DD23", "U+D818", "U+DD1E", "U+D818", "U+DD1F", "", "",
       "U+D818U+DD24", "U+D818", "U+DD29", "U+D818", "U+DD1F", "", "",
       "U+D818U+DD25", "U+D818", "U+DD1E", "U+D818", "U+DD20", "", "",
       "U+D818U+DD26", "U+D818", "U+DD1E", "U+D818", "U+DD1E", "U+D818", "U+DD1F",
       "U+D818U+DD27", "U+D818", "U+DD1E", "U+D818", "U+DD29", "U+D818", "U+DD1F",
       "U+D818U+DD28", "U+D818", "U+DD1E", "U+D818", "U+DD1E", "U+D818", "U+DD20",
       "U+D81BU+DD68", "U+D81B", "U+DD67", "U+D81B", "U+DD67", "", "",
       "U+D81BU+DD69", "U+D81B", "U+DD63", "U+D81B", "U+DD67", "", "",
       "U+D81BU+DD6A", "U+D81B", "U+DD63", "U+D81B", "U+DD67", "U+D81B", "U+DD67",
       "U+D834U+DD5E", "U+D834", "U+DD57", "U+D834", "U+DD65", "", "",
       "U+D834U+DD5F", "U+D834", "U+DD58", "U+D834", "U+DD65", "", "",
       "U+D834U+DD60", "U+D834", "U+DD58", "U+D834", "U+DD65", "U+D834", "U+DD6E",
       "U+D834U+DD61", "U+D834", "U+DD58", "U+D834", "U+DD65", "U+D834", "U+DD6F",
       "U+D834U+DD62", "U+D834", "U+DD58", "U+D834", "U+DD65", "U+D834", "U+DD70",
       "U+D834U+DD63", "U+D834", "U+DD58", "U+D834", "U+DD65", "U+D834", "U+DD71",
       "U+D834U+DD64", "U+D834", "U+DD58", "U+D834", "U+DD65", "U+D834", "U+DD72",
       "U+D834U+DDBB", "U+D834", "U+DDB9", "U+D834", "U+DD65", "", "",
       "U+D834U+DDBC", "U+D834", "U+DDBA", "U+D834", "U+DD65", "", "",
       "U+D834U+DDBD", "U+D834", "U+DDB9", "U+D834", "U+DD65", "U+D834", "U+DD6E",
       "U+D834U+DDBE", "U+D834", "U+DDBA", "U+D834", "U+DD65", "U+D834", "U+DD6E",
       "U+D834U+DDBF", "U+D834", "U+DDB9", "U+D834", "U+DD65", "U+D834", "U+DD6F",
       "U+D834U+DDC0", "U+D834", "U+DDBA", "U+D834", "U+DD65", "U+D834", "U+DD6F",
       "U+D87EU+DC00", "U+4E3D", "", "", "", "", "",
       "U+D87EU+DC01", "U+4E38", "", "", "", "", "",
       "U+D87EU+DC02", "U+4E41", "", "", "", "", "",
       "U+D87EU+DC03", "U+D840", "U+DD22", "", "", "", "",
       "U+D87EU+DC04", "U+4F60", "", "", "", "", "",
       "U+D87EU+DC05", "U+4FAE", "", "", "", "", "",
       "U+D87EU+DC06", "U+4FBB", "", "", "", "", "",
       "U+D87EU+DC07", "U+5002", "", "", "", "", "",
       "U+D87EU+DC08", "U+507A", "", "", "", "", "",
       "U+D87EU+DC09", "U+5099", "", "", "", "", "",
       "U+D87EU+DC0A", "U+50E7", "", "", "", "", "",
       "U+D87EU+DC0B", "U+50CF", "", "", "", "", "",
       "U+D87EU+DC0C", "U+349E", "", "", "", "", "",
       "U+D87EU+DC0D", "U+D841", "U+DE3A", "", "", "", "",
       "U+D87EU+DC0E", "U+514D", "", "", "", "", "",
       "U+D87EU+DC0F", "U+5154", "", "", "", "", "",
       "U+D87EU+DC10", "U+5164", "", "", "", "", "",
       "U+D87EU+DC11", "U+5177", "", "", "", "", "",
       "U+D87EU+DC12", "U+D841", "U+DD1C", "", "", "", "",
       "U+D87EU+DC13", "U+34B9", "", "", "", "", "",
       "U+D87EU+DC14", "U+5167", "", "", "", "", "",
       "U+D87EU+DC15", "U+518D", "", "", "", "", "",
       "U+D87EU+DC16", "U+D841", "U+DD4B", "", "", "", "",
       "U+D87EU+DC17", "U+5197", "", "", "", "", "",
       "U+D87EU+DC18", "U+51A4", "", "", "", "", "",
       "U+D87EU+DC19", "U+4ECC", "", "", "", "", "",
       "U+D87EU+DC1A", "U+51AC", "", "", "", "", "",
       "U+D87EU+DC1B", "U+51B5", "", "", "", "", "",
       "U+D87EU+DC1C", "U+D864", "U+DDDF", "", "", "", "",
       "U+D87EU+DC1D", "U+51F5", "", "", "", "", "",
       "U+D87EU+DC1E", "U+5203", "", "", "", "", "",
       "U+D87EU+DC1F", "U+34DF", "", "", "", "", "",
       "U+D87EU+DC20", "U+523B", "", "", "", "", "",
       "U+D87EU+DC21", "U+5246", "", "", "", "", "",
       "U+D87EU+DC22", "U+5272", "", "", "", "", "",
       "U+D87EU+DC23", "U+5277", "", "", "", "", "",
       "U+D87EU+DC24", "U+3515", "", "", "", "", "",
       "U+D87EU+DC25", "U+52C7", "", "", "", "", "",
       "U+D87EU+DC26", "U+52C9", "", "", "", "", "",
       "U+D87EU+DC27", "U+52E4", "", "", "", "", "",
       "U+D87EU+DC28", "U+52FA", "", "", "", "", "",
       "U+D87EU+DC29", "U+5305", "", "", "", "", "",
       "U+D87EU+DC2A", "U+5306", "", "", "", "", "",
       "U+D87EU+DC2B", "U+5317", "", "", "", "", "",
       "U+D87EU+DC2C", "U+5349", "", "", "", "", "",
       "U+D87EU+DC2D", "U+5351", "", "", "", "", "",
       "U+D87EU+DC2E", "U+535A", "", "", "", "", "",
       "U+D87EU+DC2F", "U+5373", "", "", "", "", "",
       "U+D87EU+DC30", "U+537D", "", "", "", "", "",
       "U+D87EU+DC31", "U+537F", "", "", "", "", "",
       "U+D87EU+DC32", "U+537F", "", "", "", "", "",
       "U+D87EU+DC33", "U+537F", "", "", "", "", "",
       "U+D87EU+DC34", "U+D842", "U+DE2C", "", "", "", "",
       "U+D87EU+DC35", "U+7070", "", "", "", "", "",
       "U+D87EU+DC36", "U+53CA", "", "", "", "", "",
       "U+D87EU+DC37", "U+53DF", "", "", "", "", "",
       "U+D87EU+DC38", "U+D842", "U+DF63", "", "", "", "",
       "U+D87EU+DC39", "U+53EB", "", "", "", "", "",
       "U+D87EU+DC3A", "U+53F1", "", "", "", "", "",
       "U+D87EU+DC3B", "U+5406", "", "", "", "", "",
       "U+D87EU+DC3C", "U+549E", "", "", "", "", "",
       "U+D87EU+DC3D", "U+5438", "", "", "", "", "",
       "U+D87EU+DC3E", "U+5448", "", "", "", "", "",
       "U+D87EU+DC3F", "U+5468", "", "", "", "", "",
       "U+D87EU+DC40", "U+54A2", "", "", "", "", "",
       "U+D87EU+DC41", "U+54F6", "", "", "", "", "",
       "U+D87EU+DC42", "U+5510", "", "", "", "", "",
       "U+D87EU+DC43", "U+5553", "", "", "", "", "",
       "U+D87EU+DC44", "U+5563", "", "", "", "", "",
       "U+D87EU+DC45", "U+5584", "", "", "", "", "",
       "U+D87EU+DC46", "U+5584", "", "", "", "", "",
       "U+D87EU+DC47", "U+5599", "", "", "", "", "",
       "U+D87EU+DC48", "U+55AB", "", "", "", "", "",
       "U+D87EU+DC49", "U+55B3", "", "", "", "", "",
       "U+D87EU+DC4A", "U+55C2", "", "", "", "", "",
       "U+D87EU+DC4B", "U+5716", "", "", "", "", "",
       "U+D87EU+DC4C", "U+5606", "", "", "", "", "",
       "U+D87EU+DC4D", "U+5717", "", "", "", "", "",
       "U+D87EU+DC4E", "U+5651", "", "", "", "", "",
       "U+D87EU+DC4F", "U+5674", "", "", "", "", "",
       "U+D87EU+DC50", "U+5207", "", "", "", "", "",
       "U+D87EU+DC51", "U+58EE", "", "", "", "", "",
       "U+D87EU+DC52", "U+57CE", "", "", "", "", "",
       "U+D87EU+DC53", "U+57F4", "", "", "", "", "",
       "U+D87EU+DC54", "U+580D", "", "", "", "", "",
       "U+D87EU+DC55", "U+578B", "", "", "", "", "",
       "U+D87EU+DC56", "U+5832", "", "", "", "", "",
       "U+D87EU+DC57", "U+5831", "", "", "", "", "",
       "U+D87EU+DC58", "U+58AC", "", "", "", "", "",
       "U+D87EU+DC59", "U+D845", "U+DCE4", "", "", "", "",
       "U+D87EU+DC5A", "U+58F2", "", "", "", "", "",
       "U+D87EU+DC5B", "U+58F7", "", "", "", "", "",
       "U+D87EU+DC5C", "U+5906", "", "", "", "", "",
       "U+D87EU+DC5D", "U+591A", "", "", "", "", "",
       "U+D87EU+DC5E", "U+5922", "", "", "", "", "",
       "U+D87EU+DC5F", "U+5962", "", "", "", "", "",
       "U+D87EU+DC60", "U+D845", "U+DEA8", "", "", "", "",
       "U+D87EU+DC61", "U+D845", "U+DEEA", "", "", "", "",
       "U+D87EU+DC62", "U+59EC", "", "", "", "", "",
       "U+D87EU+DC63", "U+5A1B", "", "", "", "", "",
       "U+D87EU+DC64", "U+5A27", "", "", "", "", "",
       "U+D87EU+DC65", "U+59D8", "", "", "", "", "",
       "U+D87EU+DC66", "U+5A66", "", "", "", "", "",
       "U+D87EU+DC67", "U+36EE", "", "", "", "", "",
       "U+D87EU+DC68", "U+36FC", "", "", "", "", "",
       "U+D87EU+DC69", "U+5B08", "", "", "", "", "",
       "U+D87EU+DC6A", "U+5B3E", "", "", "", "", "",
       "U+D87EU+DC6B", "U+5B3E", "", "", "", "", "",
       "U+D87EU+DC6C", "U+D846", "U+DDC8", "", "", "", "",
       "U+D87EU+DC6D", "U+5BC3", "", "", "", "", "",
       "U+D87EU+DC6E", "U+5BD8", "", "", "", "", "",
       "U+D87EU+DC6F", "U+5BE7", "", "", "", "", "",
       "U+D87EU+DC70", "U+5BF3", "", "", "", "", "",
       "U+D87EU+DC71", "U+D846", "U+DF18", "", "", "", "",
       "U+D87EU+DC72", "U+5BFF", "", "", "", "", "",
       "U+D87EU+DC73", "U+5C06", "", "", "", "", "",
       "U+D87EU+DC74", "U+5F53", "", "", "", "", "",
       "U+D87EU+DC75", "U+5C22", "", "", "", "", "",
       "U+D87EU+DC76", "U+3781", "", "", "", "", "",
       "U+D87EU+DC77", "U+5C60", "", "", "", "", "",
       "U+D87EU+DC78", "U+5C6E", "", "", "", "", "",
       "U+D87EU+DC79", "U+5CC0", "", "", "", "", "",
       "U+D87EU+DC7A", "U+5C8D", "", "", "", "", "",
       "U+D87EU+DC7B", "U+D847", "U+DDE4", "", "", "", "",
       "U+D87EU+DC7C", "U+5D43", "", "", "", "", "",
       "U+D87EU+DC7D", "U+D847", "U+DDE6", "", "", "", "",
       "U+D87EU+DC7E", "U+5D6E", "", "", "", "", "",
       "U+D87EU+DC7F", "U+5D6B", "", "", "", "", "",
       "U+D87EU+DC80", "U+5D7C", "", "", "", "", "",
       "U+D87EU+DC81", "U+5DE1", "", "", "", "", "",
       "U+D87EU+DC82", "U+5DE2", "", "", "", "", "",
       "U+D87EU+DC83", "U+382F", "", "", "", "", "",
       "U+D87EU+DC84", "U+5DFD", "", "", "", "", "",
       "U+D87EU+DC85", "U+5E28", "", "", "", "", "",
       "U+D87EU+DC86", "U+5E3D", "", "", "", "", "",
       "U+D87EU+DC87", "U+5E69", "", "", "", "", "",
       "U+D87EU+DC88", "U+3862", "", "", "", "", "",
       "U+D87EU+DC89", "U+D848", "U+DD83", "", "", "", "",
       "U+D87EU+DC8A", "U+387C", "", "", "", "", "",
       "U+D87EU+DC8B", "U+5EB0", "", "", "", "", "",
       "U+D87EU+DC8C", "U+5EB3", "", "", "", "", "",
       "U+D87EU+DC8D", "U+5EB6", "", "", "", "", "",
       "U+D87EU+DC8E", "U+5ECA", "", "", "", "", "",
       "U+D87EU+DC8F", "U+D868", "U+DF92", "", "", "", "",
       "U+D87EU+DC90", "U+5EFE", "", "", "", "", "",
       "U+D87EU+DC91", "U+D848", "U+DF31", "", "", "", "",
       "U+D87EU+DC92", "U+D848", "U+DF31", "", "", "", "",
       "U+D87EU+DC93", "U+8201", "", "", "", "", "",
       "U+D87EU+DC94", "U+5F22", "", "", "", "", "",
       "U+D87EU+DC95", "U+5F22", "", "", "", "", "",
       "U+D87EU+DC96", "U+38C7", "", "", "", "", "",
       "U+D87EU+DC97", "U+D84C", "U+DEB8", "", "", "", "",
       "U+D87EU+DC98", "U+D858", "U+DDDA", "", "", "", "",
       "U+D87EU+DC99", "U+5F62", "", "", "", "", "",
       "U+D87EU+DC9A", "U+5F6B", "", "", "", "", "",
       "U+D87EU+DC9B", "U+38E3", "", "", "", "", "",
       "U+D87EU+DC9C", "U+5F9A", "", "", "", "", "",
       "U+D87EU+DC9D", "U+5FCD", "", "", "", "", "",
       "U+D87EU+DC9E", "U+5FD7", "", "", "", "", "",
       "U+D87EU+DC9F", "U+5FF9", "", "", "", "", "",
       "U+D87EU+DCA0", "U+6081", "", "", "", "", "",
       "U+D87EU+DCA1", "U+393A", "", "", "", "", "",
       "U+D87EU+DCA2", "U+391C", "", "", "", "", "",
       "U+D87EU+DCA3", "U+6094", "", "", "", "", "",
       "U+D87EU+DCA4", "U+D849", "U+DED4", "", "", "", "",
       "U+D87EU+DCA5", "U+60C7", "", "", "", "", "",
       "U+D87EU+DCA6", "U+6148", "", "", "", "", "",
       "U+D87EU+DCA7", "U+614C", "", "", "", "", "",
       "U+D87EU+DCA8", "U+614E", "", "", "", "", "",
       "U+D87EU+DCA9", "U+614C", "", "", "", "", "",
       "U+D87EU+DCAA", "U+617A", "", "", "", "", "",
       "U+D87EU+DCAB", "U+618E", "", "", "", "", "",
       "U+D87EU+DCAC", "U+61B2", "", "", "", "", "",
       "U+D87EU+DCAD", "U+61A4", "", "", "", "", "",
       "U+D87EU+DCAE", "U+61AF", "", "", "", "", "",
       "U+D87EU+DCAF", "U+61DE", "", "", "", "", "",
       "U+D87EU+DCB0", "U+61F2", "", "", "", "", "",
       "U+D87EU+DCB1", "U+61F6", "", "", "", "", "",
       "U+D87EU+DCB2", "U+6210", "", "", "", "", "",
       "U+D87EU+DCB3", "U+621B", "", "", "", "", "",
       "U+D87EU+DCB4", "U+625D", "", "", "", "", "",
       "U+D87EU+DCB5", "U+62B1", "", "", "", "", "",
       "U+D87EU+DCB6", "U+62D4", "", "", "", "", "",
       "U+D87EU+DCB7", "U+6350", "", "", "", "", "",
       "U+D87EU+DCB8", "U+D84A", "U+DF0C", "", "", "", "",
       "U+D87EU+DCB9", "U+633D", "", "", "", "", "",
       "U+D87EU+DCBA", "U+62FC", "", "", "", "", "",
       "U+D87EU+DCBB", "U+6368", "", "", "", "", "",
       "U+D87EU+DCBC", "U+6383", "", "", "", "", "",
       "U+D87EU+DCBD", "U+63E4", "", "", "", "", "",
       "U+D87EU+DCBE", "U+D84A", "U+DFF1", "", "", "", "",
       "U+D87EU+DCBF", "U+6422", "", "", "", "", "",
       "U+D87EU+DCC0", "U+63C5", "", "", "", "", "",
       "U+D87EU+DCC1", "U+63A9", "", "", "", "", "",
       "U+D87EU+DCC2", "U+3A2E", "", "", "", "", "",
       "U+D87EU+DCC3", "U+6469", "", "", "", "", "",
       "U+D87EU+DCC4", "U+647E", "", "", "", "", "",
       "U+D87EU+DCC5", "U+649D", "", "", "", "", "",
       "U+D87EU+DCC6", "U+6477", "", "", "", "", "",
       "U+D87EU+DCC7", "U+3A6C", "", "", "", "", "",
       "U+D87EU+DCC8", "U+654F", "", "", "", "", "",
       "U+D87EU+DCC9", "U+656C", "", "", "", "", "",
       "U+D87EU+DCCA", "U+D84C", "U+DC0A", "", "", "", "",
       "U+D87EU+DCCB", "U+65E3", "", "", "", "", "",
       "U+D87EU+DCCC", "U+66F8", "", "", "", "", "",
       "U+D87EU+DCCD", "U+6649", "", "", "", "", "",
       "U+D87EU+DCCE", "U+3B19", "", "", "", "", "",
       "U+D87EU+DCCF", "U+6691", "", "", "", "", "",
       "U+D87EU+DCD0", "U+3B08", "", "", "", "", "",
       "U+D87EU+DCD1", "U+3AE4", "", "", "", "", "",
       "U+D87EU+DCD2", "U+5192", "", "", "", "", "",
       "U+D87EU+DCD3", "U+5195", "", "", "", "", "",
       "U+D87EU+DCD4", "U+6700", "", "", "", "", "",
       "U+D87EU+DCD5", "U+669C", "", "", "", "", "",
       "U+D87EU+DCD6", "U+80AD", "", "", "", "", "",
       "U+D87EU+DCD7", "U+43D9", "", "", "", "", "",
       "U+D87EU+DCD8", "U+6717", "", "", "", "", "",
       "U+D87EU+DCD9", "U+671B", "", "", "", "", "",
       "U+D87EU+DCDA", "U+6721", "", "", "", "", "",
       "U+D87EU+DCDB", "U+675E", "", "", "", "", "",
       "U+D87EU+DCDC", "U+6753", "", "", "", "", "",
       "U+D87EU+DCDD", "U+D84C", "U+DFC3", "", "", "", "",
       "U+D87EU+DCDE", "U+3B49", "", "", "", "", "",
       "U+D87EU+DCDF", "U+67FA", "", "", "", "", "",
       "U+D87EU+DCE0", "U+6785", "", "", "", "", "",
       "U+D87EU+DCE1", "U+6852", "", "", "", "", "",
       "U+D87EU+DCE2", "U+6885", "", "", "", "", "",
       "U+D87EU+DCE3", "U+D84D", "U+DC6D", "", "", "", "",
       "U+D87EU+DCE4", "U+688E", "", "", "", "", "",
       "U+D87EU+DCE5", "U+681F", "", "", "", "", "",
       "U+D87EU+DCE6", "U+6914", "", "", "", "", "",
       "U+D87EU+DCE7", "U+3B9D", "", "", "", "", "",
       "U+D87EU+DCE8", "U+6942", "", "", "", "", "",
       "U+D87EU+DCE9", "U+69A3", "", "", "", "", "",
       "U+D87EU+DCEA", "U+69EA", "", "", "", "", "",
       "U+D87EU+DCEB", "U+6AA8", "", "", "", "", "",
       "U+D87EU+DCEC", "U+D84D", "U+DEA3", "", "", "", "",
       "U+D87EU+DCED", "U+6ADB", "", "", "", "", "",
       "U+D87EU+DCEE", "U+3C18", "", "", "", "", "",
       "U+D87EU+DCEF", "U+6B21", "", "", "", "", "",
       "U+D87EU+DCF0", "U+D84E", "U+DCA7", "", "", "", "",
       "U+D87EU+DCF1", "U+6B54", "", "", "", "", "",
       "U+D87EU+DCF2", "U+3C4E", "", "", "", "", "",
       "U+D87EU+DCF3", "U+6B72", "", "", "", "", "",
       "U+D87EU+DCF4", "U+6B9F", "", "", "", "", "",
       "U+D87EU+DCF5", "U+6BBA", "", "", "", "", "",
       "U+D87EU+DCF6", "U+6BBB", "", "", "", "", "",
       "U+D87EU+DCF7", "U+D84E", "U+DE8D", "", "", "", "",
       "U+D87EU+DCF8", "U+D847", "U+DD0B", "", "", "", "",
       "U+D87EU+DCF9", "U+D84E", "U+DEFA", "", "", "", "",
       "U+D87EU+DCFA", "U+6C4E", "", "", "", "", "",
       "U+D87EU+DCFB", "U+D84F", "U+DCBC", "", "", "", "",
       "U+D87EU+DCFC", "U+6CBF", "", "", "", "", "",
       "U+D87EU+DCFD", "U+6CCD", "", "", "", "", "",
       "U+D87EU+DCFE", "U+6C67", "", "", "", "", "",
       "U+D87EU+DCFF", "U+6D16", "", "", "", "", "",
       "U+D87EU+DD00", "U+6D3E", "", "", "", "", "",
       "U+D87EU+DD01", "U+6D77", "", "", "", "", "",
       "U+D87EU+DD02", "U+6D41", "", "", "", "", "",
       "U+D87EU+DD03", "U+6D69", "", "", "", "", "",
       "U+D87EU+DD04", "U+6D78", "", "", "", "", "",
       "U+D87EU+DD05", "U+6D85", "", "", "", "", "",
       "U+D87EU+DD06", "U+D84F", "U+DD1E", "", "", "", "",
       "U+D87EU+DD07", "U+6D34", "", "", "", "", "",
       "U+D87EU+DD08", "U+6E2F", "", "", "", "", "",
       "U+D87EU+DD09", "U+6E6E", "", "", "", "", "",
       "U+D87EU+DD0A", "U+3D33", "", "", "", "", "",
       "U+D87EU+DD0B", "U+6ECB", "", "", "", "", "",
       "U+D87EU+DD0C", "U+6EC7", "", "", "", "", "",
       "U+D87EU+DD0D", "U+D84F", "U+DED1", "", "", "", "",
       "U+D87EU+DD0E", "U+6DF9", "", "", "", "", "",
       "U+D87EU+DD0F", "U+6F6E", "", "", "", "", "",
       "U+D87EU+DD10", "U+D84F", "U+DF5E", "", "", "", "",
       "U+D87EU+DD11", "U+D84F", "U+DF8E", "", "", "", "",
       "U+D87EU+DD12", "U+6FC6", "", "", "", "", "",
       "U+D87EU+DD13", "U+7039", "", "", "", "", "",
       "U+D87EU+DD14", "U+701E", "", "", "", "", "",
       "U+D87EU+DD15", "U+701B", "", "", "", "", "",
       "U+D87EU+DD16", "U+3D96", "", "", "", "", "",
       "U+D87EU+DD17", "U+704A", "", "", "", "", "",
       "U+D87EU+DD18", "U+707D", "", "", "", "", "",
       "U+D87EU+DD19", "U+7077", "", "", "", "", "",
       "U+D87EU+DD1A", "U+70AD", "", "", "", "", "",
       "U+D87EU+DD1B", "U+D841", "U+DD25", "", "", "", "",
       "U+D87EU+DD1C", "U+7145", "", "", "", "", "",
       "U+D87EU+DD1D", "U+D850", "U+DE63", "", "", "", "",
       "U+D87EU+DD1E", "U+719C", "", "", "", "", "",
       "U+D87EU+DD1F", "U+D850", "U+DFAB", "", "", "", "",
       "U+D87EU+DD20", "U+7228", "", "", "", "", "",
       "U+D87EU+DD21", "U+7235", "", "", "", "", "",
       "U+D87EU+DD22", "U+7250", "", "", "", "", "",
       "U+D87EU+DD23", "U+D851", "U+DE08", "", "", "", "",
       "U+D87EU+DD24", "U+7280", "", "", "", "", "",
       "U+D87EU+DD25", "U+7295", "", "", "", "", "",
       "U+D87EU+DD26", "U+D851", "U+DF35", "", "", "", "",
       "U+D87EU+DD27", "U+D852", "U+DC14", "", "", "", "",
       "U+D87EU+DD28", "U+737A", "", "", "", "", "",
       "U+D87EU+DD29", "U+738B", "", "", "", "", "",
       "U+D87EU+DD2A", "U+3EAC", "", "", "", "", "",
       "U+D87EU+DD2B", "U+73A5", "", "", "", "", "",
       "U+D87EU+DD2C", "U+3EB8", "", "", "", "", "",
       "U+D87EU+DD2D", "U+3EB8", "", "", "", "", "",
       "U+D87EU+DD2E", "U+7447", "", "", "", "", "",
       "U+D87EU+DD2F", "U+745C", "", "", "", "", "",
       "U+D87EU+DD30", "U+7471", "", "", "", "", "",
       "U+D87EU+DD31", "U+7485", "", "", "", "", "",
       "U+D87EU+DD32", "U+74CA", "", "", "", "", "",
       "U+D87EU+DD33", "U+3F1B", "", "", "", "", "",
       "U+D87EU+DD34", "U+7524", "", "", "", "", "",
       "U+D87EU+DD35", "U+D853", "U+DC36", "", "", "", "",
       "U+D87EU+DD36", "U+753E", "", "", "", "", "",
       "U+D87EU+DD37", "U+D853", "U+DC92", "", "", "", "",
       "U+D87EU+DD38", "U+7570", "", "", "", "", "",
       "U+D87EU+DD39", "U+D848", "U+DD9F", "", "", "", "",
       "U+D87EU+DD3A", "U+7610", "", "", "", "", "",
       "U+D87EU+DD3B", "U+D853", "U+DFA1", "", "", "", "",
       "U+D87EU+DD3C", "U+D853", "U+DFB8", "", "", "", "",
       "U+D87EU+DD3D", "U+D854", "U+DC44", "", "", "", "",
       "U+D87EU+DD3E", "U+3FFC", "", "", "", "", "",
       "U+D87EU+DD3F", "U+4008", "", "", "", "", "",
       "U+D87EU+DD40", "U+76F4", "", "", "", "", "",
       "U+D87EU+DD41", "U+D854", "U+DCF3", "", "", "", "",
       "U+D87EU+DD42", "U+D854", "U+DCF2", "", "", "", "",
       "U+D87EU+DD43", "U+D854", "U+DD19", "", "", "", "",
       "U+D87EU+DD44", "U+D854", "U+DD33", "", "", "", "",
       "U+D87EU+DD45", "U+771E", "", "", "", "", "",
       "U+D87EU+DD46", "U+771F", "", "", "", "", "",
       "U+D87EU+DD47", "U+771F", "", "", "", "", "",
       "U+D87EU+DD48", "U+774A", "", "", "", "", "",
       "U+D87EU+DD49", "U+4039", "", "", "", "", "",
       "U+D87EU+DD4A", "U+778B", "", "", "", "", "",
       "U+D87EU+DD4B", "U+4046", "", "", "", "", "",
       "U+D87EU+DD4C", "U+4096", "", "", "", "", "",
       "U+D87EU+DD4D", "U+D855", "U+DC1D", "", "", "", "",
       "U+D87EU+DD4E", "U+784E", "", "", "", "", "",
       "U+D87EU+DD4F", "U+788C", "", "", "", "", "",
       "U+D87EU+DD50", "U+78CC", "", "", "", "", "",
       "U+D87EU+DD51", "U+40E3", "", "", "", "", "",
       "U+D87EU+DD52", "U+D855", "U+DE26", "", "", "", "",
       "U+D87EU+DD53", "U+7956", "", "", "", "", "",
       "U+D87EU+DD54", "U+D855", "U+DE9A", "", "", "", "",
       "U+D87EU+DD55", "U+D855", "U+DEC5", "", "", "", "",
       "U+D87EU+DD56", "U+798F", "", "", "", "", "",
       "U+D87EU+DD57", "U+79EB", "", "", "", "", "",
       "U+D87EU+DD58", "U+412F", "", "", "", "", "",
       "U+D87EU+DD59", "U+7A40", "", "", "", "", "",
       "U+D87EU+DD5A", "U+7A4A", "", "", "", "", "",
       "U+D87EU+DD5B", "U+7A4F", "", "", "", "", "",
       "U+D87EU+DD5C", "U+D856", "U+DD7C", "", "", "", "",
       "U+D87EU+DD5D", "U+D856", "U+DEA7", "", "", "", "",
       "U+D87EU+DD5E", "U+D856", "U+DEA7", "", "", "", "",
       "U+D87EU+DD5F", "U+7AEE", "", "", "", "", "",
       "U+D87EU+DD60", "U+4202", "", "", "", "", "",
       "U+D87EU+DD61", "U+D856", "U+DFAB", "", "", "", "",
       "U+D87EU+DD62", "U+7BC6", "", "", "", "", "",
       "U+D87EU+DD63", "U+7BC9", "", "", "", "", "",
       "U+D87EU+DD64", "U+4227", "", "", "", "", "",
       "U+D87EU+DD65", "U+D857", "U+DC80", "", "", "", "",
       "U+D87EU+DD66", "U+7CD2", "", "", "", "", "",
       "U+D87EU+DD67", "U+42A0", "", "", "", "", "",
       "U+D87EU+DD68", "U+7CE8", "", "", "", "", "",
       "U+D87EU+DD69", "U+7CE3", "", "", "", "", "",
       "U+D87EU+DD6A", "U+7D00", "", "", "", "", "",
       "U+D87EU+DD6B", "U+D857", "U+DF86", "", "", "", "",
       "U+D87EU+DD6C", "U+7D63", "", "", "", "", "",
       "U+D87EU+DD6D", "U+4301", "", "", "", "", "",
       "U+D87EU+DD6E", "U+7DC7", "", "", "", "", "",
       "U+D87EU+DD6F", "U+7E02", "", "", "", "", "",
       "U+D87EU+DD70", "U+7E45", "", "", "", "", "",
       "U+D87EU+DD71", "U+4334", "", "", "", "", "",
       "U+D87EU+DD72", "U+D858", "U+DE28", "", "", "", "",
       "U+D87EU+DD73", "U+D858", "U+DE47", "", "", "", "",
       "U+D87EU+DD74", "U+4359", "", "", "", "", "",
       "U+D87EU+DD75", "U+D858", "U+DED9", "", "", "", "",
       "U+D87EU+DD76", "U+7F7A", "", "", "", "", "",
       "U+D87EU+DD77", "U+D858", "U+DF3E", "", "", "", "",
       "U+D87EU+DD78", "U+7F95", "", "", "", "", "",
       "U+D87EU+DD79", "U+7FFA", "", "", "", "", "",
       "U+D87EU+DD7A", "U+8005", "", "", "", "", "",
       "U+D87EU+DD7B", "U+D859", "U+DCDA", "", "", "", "",
       "U+D87EU+DD7C", "U+D859", "U+DD23", "", "", "", "",
       "U+D87EU+DD7D", "U+8060", "", "", "", "", "",
       "U+D87EU+DD7E", "U+D859", "U+DDA8", "", "", "", "",
       "U+D87EU+DD7F", "U+8070", "", "", "", "", "",
       "U+D87EU+DD80", "U+D84C", "U+DF5F", "", "", "", "",
       "U+D87EU+DD81", "U+43D5", "", "", "", "", "",
       "U+D87EU+DD82", "U+80B2", "", "", "", "", "",
       "U+D87EU+DD83", "U+8103", "", "", "", "", "",
       "U+D87EU+DD84", "U+440B", "", "", "", "", "",
       "U+D87EU+DD85", "U+813E", "", "", "", "", "",
       "U+D87EU+DD86", "U+5AB5", "", "", "", "", "",
       "U+D87EU+DD87", "U+D859", "U+DFA7", "", "", "", "",
       "U+D87EU+DD88", "U+D859", "U+DFB5", "", "", "", "",
       "U+D87EU+DD89", "U+D84C", "U+DF93", "", "", "", "",
       "U+D87EU+DD8A", "U+D84C", "U+DF9C", "", "", "", "",
       "U+D87EU+DD8B", "U+8201", "", "", "", "", "",
       "U+D87EU+DD8C", "U+8204", "", "", "", "", "",
       "U+D87EU+DD8D", "U+8F9E", "", "", "", "", "",
       "U+D87EU+DD8E", "U+446B", "", "", "", "", "",
       "U+D87EU+DD8F", "U+8291", "", "", "", "", "",
       "U+D87EU+DD90", "U+828B", "", "", "", "", "",
       "U+D87EU+DD91", "U+829D", "", "", "", "", "",
       "U+D87EU+DD92", "U+52B3", "", "", "", "", "",
       "U+D87EU+DD93", "U+82B1", "", "", "", "", "",
       "U+D87EU+DD94", "U+82B3", "", "", "", "", "",
       "U+D87EU+DD95", "U+82BD", "", "", "", "", "",
       "U+D87EU+DD96", "U+82E6", "", "", "", "", "",
       "U+D87EU+DD97", "U+D85A", "U+DF3C", "", "", "", "",
       "U+D87EU+DD98", "U+82E5", "", "", "", "", "",
       "U+D87EU+DD99", "U+831D", "", "", "", "", "",
       "U+D87EU+DD9A", "U+8363", "", "", "", "", "",
       "U+D87EU+DD9B", "U+83AD", "", "", "", "", "",
       "U+D87EU+DD9C", "U+8323", "", "", "", "", "",
       "U+D87EU+DD9D", "U+83BD", "", "", "", "", "",
       "U+D87EU+DD9E", "U+83E7", "", "", "", "", "",
       "U+D87EU+DD9F", "U+8457", "", "", "", "", "",
       "U+D87EU+DDA0", "U+8353", "", "", "", "", "",
       "U+D87EU+DDA1", "U+83CA", "", "", "", "", "",
       "U+D87EU+DDA2", "U+83CC", "", "", "", "", "",
       "U+D87EU+DDA3", "U+83DC", "", "", "", "", "",
       "U+D87EU+DDA4", "U+D85B", "U+DC36", "", "", "", "",
       "U+D87EU+DDA5", "U+D85B", "U+DD6B", "", "", "", "",
       "U+D87EU+DDA6", "U+D85B", "U+DCD5", "", "", "", "",
       "U+D87EU+DDA7", "U+452B", "", "", "", "", "",
       "U+D87EU+DDA8", "U+84F1", "", "", "", "", "",
       "U+D87EU+DDA9", "U+84F3", "", "", "", "", "",
       "U+D87EU+DDAA", "U+8516", "", "", "", "", "",
       "U+D87EU+DDAB", "U+D85C", "U+DFCA", "", "", "", "",
       "U+D87EU+DDAC", "U+8564", "", "", "", "", "",
       "U+D87EU+DDAD", "U+D85B", "U+DF2C", "", "", "", "",
       "U+D87EU+DDAE", "U+455D", "", "", "", "", "",
       "U+D87EU+DDAF", "U+4561", "", "", "", "", "",
       "U+D87EU+DDB0", "U+D85B", "U+DFB1", "", "", "", "",
       "U+D87EU+DDB1", "U+D85C", "U+DCD2", "", "", "", "",
       "U+D87EU+DDB2", "U+456B", "", "", "", "", "",
       "U+D87EU+DDB3", "U+8650", "", "", "", "", "",
       "U+D87EU+DDB4", "U+865C", "", "", "", "", "",
       "U+D87EU+DDB5", "U+8667", "", "", "", "", "",
       "U+D87EU+DDB6", "U+8669", "", "", "", "", "",
       "U+D87EU+DDB7", "U+86A9", "", "", "", "", "",
       "U+D87EU+DDB8", "U+8688", "", "", "", "", "",
       "U+D87EU+DDB9", "U+870E", "", "", "", "", "",
       "U+D87EU+DDBA", "U+86E2", "", "", "", "", "",
       "U+D87EU+DDBB", "U+8779", "", "", "", "", "",
       "U+D87EU+DDBC", "U+8728", "", "", "", "", "",
       "U+D87EU+DDBD", "U+876B", "", "", "", "", "",
       "U+D87EU+DDBE", "U+8786", "", "", "", "", "",
       "U+D87EU+DDBF", "U+45D7", "", "", "", "", "",
       "U+D87EU+DDC0", "U+87E1", "", "", "", "", "",
       "U+D87EU+DDC1", "U+8801", "", "", "", "", "",
       "U+D87EU+DDC2", "U+45F9", "", "", "", "", "",
       "U+D87EU+DDC3", "U+8860", "", "", "", "", "",
       "U+D87EU+DDC4", "U+8863", "", "", "", "", "",
       "U+D87EU+DDC5", "U+D85D", "U+DE67", "", "", "", "",
       "U+D87EU+DDC6", "U+88D7", "", "", "", "", "",
       "U+D87EU+DDC7", "U+88DE", "", "", "", "", "",
       "U+D87EU+DDC8", "U+4635", "", "", "", "", "",
       "U+D87EU+DDC9", "U+88FA", "", "", "", "", "",
       "U+D87EU+DDCA", "U+34BB", "", "", "", "", "",
       "U+D87EU+DDCB", "U+D85E", "U+DCAE", "", "", "", "",
       "U+D87EU+DDCC", "U+D85E", "U+DD66", "", "", "", "",
       "U+D87EU+DDCD", "U+46BE", "", "", "", "", "",
       "U+D87EU+DDCE", "U+46C7", "", "", "", "", "",
       "U+D87EU+DDCF", "U+8AA0", "", "", "", "", "",
       "U+D87EU+DDD0", "U+8AED", "", "", "", "", "",
       "U+D87EU+DDD1", "U+8B8A", "", "", "", "", "",
       "U+D87EU+DDD2", "U+8C55", "", "", "", "", "",
       "U+D87EU+DDD3", "U+D85F", "U+DCA8", "", "", "", "",
       "U+D87EU+DDD4", "U+8CAB", "", "", "", "", "",
       "U+D87EU+DDD5", "U+8CC1", "", "", "", "", "",
       "U+D87EU+DDD6", "U+8D1B", "", "", "", "", "",
       "U+D87EU+DDD7", "U+8D77", "", "", "", "", "",
       "U+D87EU+DDD8", "U+D85F", "U+DF2F", "", "", "", "",
       "U+D87EU+DDD9", "U+D842", "U+DC04", "", "", "", "",
       "U+D87EU+DDDA", "U+8DCB", "", "", "", "", "",
       "U+D87EU+DDDB", "U+8DBC", "", "", "", "", "",
       "U+D87EU+DDDC", "U+8DF0", "", "", "", "", "",
       "U+D87EU+DDDD", "U+D842", "U+DCDE", "", "", "", "",
       "U+D87EU+DDDE", "U+8ED4", "", "", "", "", "",
       "U+D87EU+DDDF", "U+8F38", "", "", "", "", "",
       "U+D87EU+DDE0", "U+D861", "U+DDD2", "", "", "", "",
       "U+D87EU+DDE1", "U+D861", "U+DDED", "", "", "", "",
       "U+D87EU+DDE2", "U+9094", "", "", "", "", "",
       "U+D87EU+DDE3", "U+90F1", "", "", "", "", "",
       "U+D87EU+DDE4", "U+9111", "", "", "", "", "",
       "U+D87EU+DDE5", "U+D861", "U+DF2E", "", "", "", "",
       "U+D87EU+DDE6", "U+911B", "", "", "", "", "",
       "U+D87EU+DDE7", "U+9238", "", "", "", "", "",
       "U+D87EU+DDE8", "U+92D7", "", "", "", "", "",
       "U+D87EU+DDE9", "U+92D8", "", "", "", "", "",
       "U+D87EU+DDEA", "U+927C", "", "", "", "", "",
       "U+D87EU+DDEB", "U+93F9", "", "", "", "", "",
       "U+D87EU+DDEC", "U+9415", "", "", "", "", "",
       "U+D87EU+DDED", "U+D862", "U+DFFA", "", "", "", "",
       "U+D87EU+DDEE", "U+958B", "", "", "", "", "",
       "U+D87EU+DDEF", "U+4995", "", "", "", "", "",
       "U+D87EU+DDF0", "U+95B7", "", "", "", "", "",
       "U+D87EU+DDF1", "U+D863", "U+DD77", "", "", "", "",
       "U+D87EU+DDF2", "U+49E6", "", "", "", "", "",
       "U+D87EU+DDF3", "U+96C3", "", "", "", "", "",
       "U+D87EU+DDF4", "U+5DB2", "", "", "", "", "",
       "U+D87EU+DDF5", "U+9723", "", "", "", "", "",
       "U+D87EU+DDF6", "U+D864", "U+DD45", "", "", "", "",
       "U+D87EU+DDF7", "U+D864", "U+DE1A", "", "", "", "",
       "U+D87EU+DDF8", "U+4A6E", "", "", "", "", "",
       "U+D87EU+DDF9", "U+4A76", "", "", "", "", "",
       "U+D87EU+DDFA", "U+97E0", "", "", "", "", "",
       "U+D87EU+DDFB", "U+D865", "U+DC0A", "", "", "", "",
       "U+D87EU+DDFC", "U+4AB2", "", "", "", "", "",
       "U+D87EU+DDFD", "U+D865", "U+DC96", "", "", "", "",
       "U+D87EU+DDFE", "U+980B", "", "", "", "", "",
       "U+D87EU+DDFF", "U+980B", "", "", "", "", "",
       "U+D87EU+DE00", "U+9829", "", "", "", "", "",
       "U+D87EU+DE01", "U+D865", "U+DDB6", "", "", "", "",
       "U+D87EU+DE02", "U+98E2", "", "", "", "", "",
       "U+D87EU+DE03", "U+4B33", "", "", "", "", "",
       "U+D87EU+DE04", "U+9929", "", "", "", "", "",
       "U+D87EU+DE05", "U+99A7", "", "", "", "", "",
       "U+D87EU+DE06", "U+99C2", "", "", "", "", "",
       "U+D87EU+DE07", "U+99FE", "", "", "", "", "",
       "U+D87EU+DE08", "U+4BCE", "", "", "", "", "",
       "U+D87EU+DE09", "U+D866", "U+DF30", "", "", "", "",
       "U+D87EU+DE0A", "U+9B12", "", "", "", "", "",
       "U+D87EU+DE0B", "U+9C40", "", "", "", "", "",
       "U+D87EU+DE0C", "U+9CFD", "", "", "", "", "",
       "U+D87EU+DE0D", "U+4CCE", "", "", "", "", "",
       "U+D87EU+DE0E", "U+4CED", "", "", "", "", "",
       "U+D87EU+DE0F", "U+9D67", "", "", "", "", "",
       "U+D87EU+DE10", "U+D868", "U+DCCE", "", "", "", "",
       "U+D87EU+DE11", "U+4CF8", "", "", "", "", "",
       "U+D87EU+DE12", "U+D868", "U+DD05", "", "", "", "",
       "U+D87EU+DE13", "U+D868", "U+DE0E", "", "", "", "",
       "U+D87EU+DE14", "U+D868", "U+DE91", "", "", "", "",
       "U+D87EU+DE15", "U+9EBB", "", "", "", "", "",
       "U+D87EU+DE16", "U+4D56", "", "", "", "", "",
       "U+D87EU+DE17", "U+9EF9", "", "", "", "", "",
       "U+D87EU+DE18", "U+9EFE", "", "", "", "", "",
       "U+D87EU+DE19", "U+9F05", "", "", "", "", "",
       "U+D87EU+DE1A", "U+9F0F", "", "", "", "", "",
       "U+D87EU+DE1B", "U+9F16", "", "", "", "", "",
       "U+D87EU+DE1C", "U+9F3B", "", "", "", "", "",
       "U+D87EU+DE1D", "U+D869", "U+DE00", "", "", "", "" >>

\* String.prototype.normalize("NFD") on one code point p: the code units
\* of its full canonical decomposition
NFDChar(p) ==
    IF Len(p) = 2 THEN ImagemNaTabela(NFDTabelaAstral, 7, p)
    ELSE IF p[1] \in AsciiChars THEN p
    ELSE IF p[1] \in HangulNomes THEN HangulNFD(p[1])
    ELSE ImagemNaTabela(NFDTabela, 5, p)


\* [U+0300-U+036F]: the block of combining diacritical marks
MarcasAcento == {NomeDe(cp) : cp \in 768..879}

\* String.prototype.toLowerCase on one character of the text that reaches
\* line 39.  That text holds only [A-Za-z0-9_ ]: line 36 has turned every
\* run of white space into one " " and line 37 every character outside
\* [A-Za-z0-9_] and the white space into " ".  On these characters
\* toLowerCase maps A..Z to a..z and leaves the others as they are.
LowerChar(c) ==
    IF \E i \in DOMAIN AlfaMai : AlfaMai[i] = c
    THEN AlfaMin[CHOOSE i \in DOMAIN AlfaMai : AlfaMai[i] = c]
    ELSE c

-----------------------------------------------------------------------------
(* String helpers (built-ins of JavaScript used by the code).              *)

\* the canonical decomposition of every code point of ps, in order
DecompoeOsPontos(ps) == Junta([i \in 1..Len(ps) |-> NFDChar(ps[i])])

\* the canonical decomposition of every code point of s, in order
Decompoe(s) == DecompoeOsPontos(Pontos(s))

\* the Canonical_Combining_Class of each code point of ps
ClassesDosPontos(ps) ==
    [i \in 1..Len(ps) |-> ClasseCombinacao(Chave(ps[i]))]

\* canonical ordering of the code points ps with classes k: every maximal
\* run of marks (characters of a class above 0) is sorted by class, marks
\* of one class keeping their order
OrdenaPontos(ps, k) ==
    LET Inicio(i) == CHOOSE j \in 1..i :
                        /\ \A h \in j..i : k[h] > 0
                        /\ j = 1 \/ k[j - 1] = 0
        Fim(i) == CHOOSE j \in i..Len(ps) :
                     /\ \A h \in i..j : k[h] > 0
                     /\ j = Len(ps) \/ k[j + 1] = 0
        Pos(i) == Inicio(i)
                    + Cardinality({j \in Inicio(i)..Fim(i) :
                                      k[j] < k[i] \/ (k[j] = k[i] /\ j < i)})
    IN  [p \in 1..Len(ps) |->
            IF k[p] = 0 THEN ps[p]
            ELSE ps[CHOOSE i \in Inicio(p)..Fim(p) : Pos(i) = p]]

OrdenaMarcasDosPontos(ps) == Junta(OrdenaPontos(ps, ClassesDosPontos(ps)))

\* canonical ordering of the marks of s
OrdenaMarcas(s) == OrdenaMarcasDosPontos(Pontos(s))

\* s.normalize("NFD")
NormalizeNFD(s) == OrdenaMarcas(Decompoe(s))

\* s.replace(/[C]/g, "")
RemoveChars(s, C) == SelectSeq(s, LAMBDA c : c \notin C)

\* s without its longest prefix of characters of C
DropWhileIn(s, C) ==
    IF \A i \in 1..Len(s) : s[i] \in C THEN <<>>
    ELSE SubSeq(s, CHOOSE i \in 1..Len(s) :
                      s[i] \notin C /\ \A j \in 1..(i - 1) : s[j] \in C,
                Len(s))

\* s.replace(/[C]+/g, " "): every maximal run of characters of C becomes " ".
\* The first character of a run is replaced by " ", the others are dropped.
ReplaceRuns(s, C) ==
    LET marcado == [i \in 1..Len(s) |->
                       [ c    |-> IF s[i] \in C THEN " " ELSE s[i],
                         fica |-> \/ s[i] \notin C
                                  \/ i = 1
                                  \/ s[i - 1] \notin C ]]
        ficam == SelectSeq(marcado, LAMBDA m : m.fica)
    IN  [i \in 1..Len(ficam) |-> ficam[i].c]

\* s.replace(/[^\w\s]/g, " "): every character outside \w and \s becomes " "
ReplaceNonWord(s) ==
    [i \in 1..Len(s) |->
        IF s[i] \in PalavraChars \cup EspacoChars THEN s[i] ELSE " "]

\* s without its longest suffix of characters of C
DropTrailingIn(s, C) ==
    IF \A i \in 1..Len(s) : s[i] \in C THEN <<>>
    ELSE SubSeq(s, 1, CHOOSE i \in 1..Len(s) :
                         s[i] \notin C /\ \A j \in (i + 1)..Len(s) : s[j] \in C)

\* String.prototype.trim
Trim(s) == DropTrailingIn(DropWhileIn(s, EspacoChars), EspacoChars)

\* .toLowerCase() of line 39, on a text of [A-Za-z0-9_ ]
ToLowerCase(s) == [i \in 1..Len(s) |-> LowerChar(s[i])]

\* String.prototype.includes
Includes(hay, needle) ==
    \E i \in 0..(Len(hay) - Len(needle)) :
        SubSeq(hay, i + 1, i + Len(needle)) = needle

\* s.split(c) for a one-character separator c: always at least one piece.
\* Piece k lies between separator k - 1 and separator k, the start and the
\* end of s counting as separators 0 and n + 1.
SplitChar(s, c) ==
    LET seps == {i \in 1..Len(s) : s[i] = c}
        n == Cardinality(seps)
        Sep(k) == IF k = 0 THEN 0
                  ELSE IF k = n + 1 THEN Len(s) + 1
                  ELSE CHOOSE i \in seps :
                           Cardinality({j \in seps : j < i}) = k - 1
    IN  [k \in 1..(n + 1) |-> SubSeq(s, Sep(k - 1) + 1, Sep(k) - 1)]

\* s.split(/\r?\n/): a separator is "\n" together with one "\r" before it
SplitLinhas(s) ==
    LET pedacos == SplitChar(s, "\n")
        SemCR(p) == IF p # <<>> /\ p[Len(p)] = "\r"
                    THEN SubSeq(p, 1, Len(p) - 1) ELSE p
    IN  [i \in 1..Len(pedacos) |->
            IF i < Len(pedacos) THEN SemCR(pedacos[i]) ELSE pedacos[i]]

-----------------------------------------------------------------------------
(* normalizarTexto                                                         *)

\* The order of the code: the white space is compacted BEFORE the
\* punctuation is replaced by spaces.
normalizarTexto(str) ==
    IF Falsy(str) THEN <<>>
    ELSE ToLowerCase(
           Trim(
             ReplaceNonWord(
               ReplaceRuns(
                 ReplaceRuns(
                   RemoveChars(NormalizeNFD(str), MarcasAcento),
                   QuebraChars),
                 EspacoChars))))

-----------------------------------------------------------------------------
(* Vendor tokens and the token-overlap score                               *)

\* alvo.split(" ").map((t) => t.trim()).filter((t) => t.length > 2)
TokensAlvo(alvo) ==
    LET pedacos == SplitChar(alvo, " ")
        aparados == [i \in 1..Len(pedacos) |-> Trim(pedacos[i])]
    IN  SelectSeq(aparados, LAMBDA t : Len(t) > 2)

\* the inner loop: how many tokens occur in the normalized line
Encontrados(linha, tokensAlvo) ==
    Cardinality({i \in 1..Len(tokensAlvo) : Includes(linha, tokensAlvo[i])})

\* score >= 0.7, with score = encontrados / tokensAlvo.length.  The quotient
\* of two small integers is a correctly rounded double and 0.7 is the double
\* nearest to 7/10, so the comparison of the doubles agrees with the
\* comparison of the fractions.
ScoreAtingePresenca(encontrados, total) == 10 * encontrados >= 7 * total

\* Mutant of ScoreAtingeExtracao: the extraction threshold unified with the
\* presence threshold (0.7).
ScoreAtingeExtracaoUnificado(encontrados, total) ==
    10 * encontrados >= 7 * total

\* score >= 0.6, likewise
ScoreAtingeExtracao(encontrados, total) == 10 * encontrados >= 6 * total

-----------------------------------------------------------------------------
(* fornecedorExisteNaRazao                                                 *)

\* Mutant of fornecedorExisteNaRazao: the whole-text substring test is left
\* out, only the line-by-line token score decides.
fornecedorExisteSoPorTokens(nomeFornecedor, textoRazaoBruto) ==
    IF Falsy(nomeFornecedor) \/ Falsy(textoRazaoBruto) THEN FALSE
    ELSE LET tokensAlvo == TokensAlvo(normalizarTexto(nomeFornecedor))
             brutas == SplitLinhas(textoRazaoBruto)
         IN  /\ Len(tokensAlvo) > 0
             /\ \E i \in 1..Len(brutas) :
                   ScoreAtingePresenca(
                       Encontrados(normalizarTexto(brutas[i]), tokensAlvo),
                       Len(tokensAlvo))

fornecedorExisteNaRazao(nomeFornecedor, textoRazaoBruto) ==
    IF Falsy(nomeFornecedor) \/ Falsy(textoRazaoBruto) THEN FALSE
    ELSE LET alvo == normalizarTexto(nomeFornecedor) IN
         IF alvo = <<>> THEN FALSE
         ELSE LET textoNormalizado == normalizarTexto(textoRazaoBruto) IN
              IF Includes(textoNormalizado, alvo) THEN TRUE
              ELSE LET tokensAlvo == TokensAlvo(alvo) IN
                   IF Len(tokensAlvo) = 0 THEN FALSE
                   ELSE LET brutas == SplitLinhas(textoRazaoBruto)
                            normais == [i \in 1..Len(brutas) |->
                                           normalizarTexto(brutas[i])]
                            linhasNorm == SelectSeq(normais, LAMBDA l : l # <<>>)
                        IN  \E i \in 1..Len(linhasNorm) :
                                ScoreAtingePresenca(
                                    Encontrados(linhasNorm[i], tokensAlvo),
                                    Len(tokensAlvo))

-----------------------------------------------------------------------------
(* extrairLinhasFornecedor                                                 *)

AllDigits(s, i, n) ==
    /\ i + n - 1 <= Len(s)
    /\ \A j \in i..(i + n - 1) : s[j] \in Digitos

CharAt(s, i) == IF i >= 1 /\ i <= Len(s) THEN s[i] ELSE "EOF"

RECURSIVE AfterGroups(_, _)
\* (?:\.\d{3})* from position p, greedy: the position after the last group
AfterGroups(s, p) ==
    IF CharAt(s, p) = "." /\ AllDigits(s, p + 1, 3)
    THEN AfterGroups(s, p + 4)
    ELSE p

\* \d{1,3}(?:\.\d{3})*,\d{2} anchored at i with exactly d leading digits:
\* the index of the last matched character, 0 when there is no match.
\* Giving back a group never helps: the character after fewer groups is
\* the "." of the next group, not the "," the pattern needs.
MatchWith(s, i, d) ==
    IF ~AllDigits(s, i, d) THEN 0
    ELSE LET p == AfterGroups(s, i + d) IN
         IF CharAt(s, p) = "," /\ AllDigits(s, p + 1, 2) THEN p + 2 ELSE 0

\* the pattern anchored at i: \d{1,3} is greedy, so 3 digits are tried
\* first, then 2, then 1
MatchAt(s, i) ==
    IF MatchWith(s, i, 3) > 0 THEN MatchWith(s, i, 3)
    ELSE IF MatchWith(s, i, 2) > 0 THEN MatchWith(s, i, 2)
    ELSE MatchWith(s, i, 1)

RECURSIVE NumerosMonetarios(_, _)
\* the while loop over regexValor.exec(linhaOriginal), from position i on
NumerosMonetarios(s, i) ==
    LET inicios == {j \in i..Len(s) : MatchAt(s, j) > 0} IN
    IF inicios = {} THEN <<>>
    ELSE LET j == CHOOSE h \in inicios : \A g \in inicios : h <= g
         IN  <<SubSeq(s, j, MatchAt(s, j))>>
                 \o NumerosMonetarios(s, MatchAt(s, j) + 1)

\* the object pushed for an accepted line
LinhaResultado(linhaOriginal, linhaNorm, encontrados, total) ==
    LET numerosMonetarios == NumerosMonetarios(linhaOriginal, 1) IN
    [ linhaOriginal     |-> Trim(linhaOriginal),
      linhaNormalizada  |-> linhaNorm,
      scoreMatch        |-> [num |-> encontrados, den |-> total],
      numerosMonetarios |-> numerosMonetarios,
      ultimoNumero      |-> IF Len(numerosMonetarios) > 0
                            THEN numerosMonetarios[Len(numerosMonetarios)]
                            ELSE NULL ]

RECURSIVE LoopLinhasInvertido(_, _, _)
\* Mutant of LoopLinhas: each accepted line is put in front of the result
\* (unshift for push), so the entries come out in reverse order.
LoopLinhasInvertido(linhasBrutas, tokensAlvo, i) ==
    IF i > Len(linhasBrutas) THEN <<>>
    ELSE LET linhaOriginal == linhasBrutas[i]
             linhaNorm == normalizarTexto(linhaOriginal)
             encontrados == Encontrados(linhaNorm, tokensAlvo)
             resto == LoopLinhasInvertido(linhasBrutas, tokensAlvo, i + 1)
         IN  IF linhaNorm = <<>> THEN resto
             ELSE IF ScoreAtingeExtracao(encontrados, Len(tokensAlvo))
                  THEN resto \o <<LinhaResultado(linhaOriginal, linhaNorm,
                                      encontrados, Len(tokensAlvo))>>
                  ELSE resto

RECURSIVE LoopLinhas(_, _, _)
\* the for loop over linhas, from line i on
LoopLinhas(linhasBrutas, tokensAlvo, i) ==
    IF i > Len(linhasBrutas) THEN <<>>
    ELSE LET linhaOriginal == linhasBrutas[i]
             linhaNorm == normalizarTexto(linhaOriginal)
             encontrados == Encontrados(linhaNorm, tokensAlvo)
             resto == LoopLinhas(linhasBrutas, tokensAlvo, i + 1)
         IN  IF linhaNorm = <<>> THEN resto
             ELSE IF ScoreAtingeExtracao(encontrados, Len(tokensAlvo))
                  THEN <<LinhaResultado(linhaOriginal, linhaNorm, encontrados,
                                        Len(tokensAlvo))>> \o resto
                  ELSE resto

extrairLinhasFornecedor(textoBruto, nomeFornecedor) ==
    IF Falsy(textoBruto) \/ Falsy(nomeFornecedor) THEN <<>>
    ELSE LET alvoNorm == normalizarTexto(nomeFornecedor) IN
         IF alvoNorm = <<>> THEN <<>>
         ELSE LET tokensAlvo == TokensAlvo(alvoNorm) IN
              IF Len(tokensAlvo) = 0 THEN <<>>
              ELSE LoopLinhas(SplitLinhas(textoBruto), tokensAlvo, 1)

-----------------------------------------------------------------------------
(* parseValorMonetario                                                     *)

DigitosSeq == <<"0", "1", "2", "3", "4", "5", "6", "7", "8", "9">>

DigitVal(c) == (CHOOSE i \in 1..10 : DigitosSeq[i] = c) - 1

RECURSIVE ValorDigitos(_)
\* the value of a string of decimal digits ("" counts 0)
ValorDigitos(ds) ==
    IF ds = <<>> THEN 0
    ELSE 10 * ValorDigitos(SubSeq(ds, 1, Len(ds) - 1)) + DigitVal(ds[Len(ds)])

RECURSIVE PrefixoDigitos(_)
\* the longest prefix of s made of digits
PrefixoDigitos(s) ==
    IF s # <<>> /\ Head(s) \in Digitos
    THEN <<Head(s)>> \o PrefixoDigitos(Tail(s))
    ELSE <<>>

\* s.replace(",", "."): only the FIRST comma is replaced
ReplaceFirstComma(s) ==
    IF \E i \in 1..Len(s) : s[i] = ","
    THEN LET i == CHOOSE j \in 1..Len(s) :
                      s[j] = "," /\ \A h \in 1..(j - 1) : s[h] # ","
         IN  [j \in 1..Len(s) |-> IF j = i THEN "." ELSE s[j]]
    ELSE s

\* Number.parseFloat on a string of digits, ".", "," and "-": the longest
\* prefix of the form -?digits(.digits)? is read, NaN when it holds no digit.
\* The value is counted in cents, so a text with at most two fraction digits
\* is representable; the currency pattern yields exactly two.
ParseFloat(s) ==
    LET neg   == s # <<>> /\ Head(s) = "-"
        corpo == IF neg THEN Tail(s) ELSE s
        int   == PrefixoDigitos(corpo)
        apos  == SubSeq(corpo, Len(int) + 1, Len(corpo))
        frac  == IF apos # <<>> /\ Head(apos) = "."
                 THEN PrefixoDigitos(Tail(apos)) ELSE <<>>
        mag   == CASE Len(frac) = 0 -> 100 * ValorDigitos(int)
                   [] Len(frac) = 1 -> 100 * ValorDigitos(int)
                                           + 10 * ValorDigitos(frac)
                   [] Len(frac) = 2 -> 100 * ValorDigitos(int)
                                           + ValorDigitos(frac)
    IN  IF Len(int) = 0 /\ Len(frac) = 0
        THEN [nan |-> TRUE, centavos |-> 0]
        ELSE [nan |-> FALSE, centavos |-> IF neg THEN 0 - mag ELSE mag]

\* The result is a record: nulo says that the function returned null,
\* centavos is the number otherwise.
parseValorMonetario(valorStr) ==
    IF Falsy(valorStr) THEN [nulo |-> TRUE, centavos |-> 0]
    ELSE LET semPontos == RemoveChars(valorStr, {"."})
             soNumero  == SelectSeq(semPontos,
                              LAMBDA c : c \in Digitos \cup {",", "-"})
             limpo     == ReplaceFirstComma(soNumero)
             num       == ParseFloat(limpo)
         IN  [nulo |-> num.nan, centavos |-> num.centavos]

-----------------------------------------------------------------------------
(* Doubles.                                                                *)
(*                                                                         *)
(* For c >= 1 cents let k = ExpoenteBin(c), so that 2^k <= c/100 < 2^(k+1).*)
(* The double nearest to c/100 has the 53-bit mantissa                     *)
(*     M = round(c * 2^(52-k) / 100),                                      *)
(* and with r = (c * 2^(52-k)) mod 100 it equals                           *)
(*     c/100 + e * 2^(k-52) / 100,   e = -r if r < 50, 100 - r if r > 50   *)
(* (r = 50 needs 52 - k <= 1, far above any amount here).  ErroDouble(c)   *)
(* is e: the rounding error of the double, in hundredths of its last       *)
(* mantissa bit.  Everything below is integer arithmetic on c, k and e.    *)

RECURSIVE Pot2(_)
Pot2(n) == IF n <= 0 THEN 1 ELSE 2 * Pot2(n - 1)

RECURSIVE Pot2Mod(_, _)
\* 2^n mod m
Pot2Mod(n, m) == IF n <= 0 THEN 1 % m ELSE (2 * Pot2Mod(n - 1, m)) % m

RECURSIVE ExpoenteDe(_, _)
ExpoenteDe(c, k) ==
    IF k >= 0 /\ 100 * Pot2(k + 1) <= c THEN ExpoenteDe(c, k + 1)
    ELSE IF k <= 0 /\ c * Pot2(0 - k) < 100 THEN ExpoenteDe(c, k - 1)
    ELSE k

\* the binary exponent of c/100, for c >= 1
ExpoenteBin(c) == ExpoenteDe(c, 0)

\* (c * 2^(52-k)) mod m
RestoMantissa(c, m) == ((c % m) * Pot2Mod(52 - ExpoenteBin(c), m)) % m

ErroDouble(c) ==
    IF c = 0 THEN 0
    ELSE IF RestoMantissa(c, 100) < 50 THEN 0 - RestoMantissa(c, 100)
    ELSE 100 - RestoMantissa(c, 100)

\* Math.abs(max - min) <= 0.1 for the doubles of maxC >= minC >= 0 cents.
\* The exact difference of the two doubles is
\*     D = (maxC - minC)/100 + (ea * 2^(ka-52) - eb * 2^(kb-52)) / 100,
\* the subtraction rounds D to the nearest double, and the literal 0.1 is
\* the double 0.1 + 0.4 * 2^-56 (10 cents: k = -4, e = 40, even mantissa).
\* So the test holds iff D <= 0.1 + 0.9 * 2^-56, the midpoint above 0.1
\* included.  The error terms are far below one cent: they decide only
\* when the amounts differ by exactly ten cents.
DiffAteDecimo(maxC, minC) ==
    IF maxC - minC # 10 THEN maxC - minC < 10
    ELSE IF minC = 0 THEN TRUE
    ELSE LET ka == ExpoenteBin(maxC)
             kb == ExpoenteBin(minC)
             L  == ErroDouble(maxC) * Pot2(ka - kb) - ErroDouble(minC)
         IN  IF kb >= -4 THEN L <= 90 \div Pot2(kb + 4)
             ELSE L <= 90 * Pot2(-4 - kb)

\* Number(((min + max) / 2).toFixed(2)), in cents, for amounts at most ten
\* cents apart.  With s = minC + maxC the exact sum of the two doubles is
\*     S = s/100 + (ea * 2^(ka-52) + eb * 2^(kb-52)) / 100;
\* the addition rounds S to a double, halving is exact, and toFixed(2)
\* takes the nearest hundredth of that exact value, the larger one on a
\* tie.  For even s that is s/2.  For odd s the exact mean ends in half a
\* cent, and the result is (s+1)/2 when the rounded sum is >= s/100, and
\* (s-1)/2 when it is below.
SomaArredondaAcima(minC, maxC) ==
    LET s  == minC + maxC
        kT == ExpoenteBin(s)
        ka == ExpoenteBin(maxC)
        kb == ExpoenteBin(minC)
        m  == kT - kb
        rT == RestoMantissa(s, 100)
        \* 100 * 2^m * (S - Q), in last bits of the sum's mantissa, where
        \* Q = floor(s * 2^(52-kT) / 100)
        n  == rT * Pot2(m) + ErroDouble(maxC) * Pot2(ka - kb) + ErroDouble(minC)
        qImpar == RestoMantissa(s, 200) >= 100
        potenciaDe2 == IF kT >= 0 THEN s = 100 * Pot2(kT)
                       ELSE s * Pot2(0 - kT) = 100
    IN  IF minC = 0 THEN ErroDouble(maxC) >= 0
        ELSE IF rT > 0
             \* s/100 is no double: the sum must round up to Q + 1
             THEN n > 50 * Pot2(m) \/ (n = 50 * Pot2(m) /\ qImpar)
             \* s/100 is the double Q: the sum must not round below it
             ELSE LET meio == IF potenciaDe2 THEN 25 * Pot2(m)
                              ELSE 50 * Pot2(m)
                  IN  n > 0 - meio \/ (n = 0 - meio /\ ~qImpar)

MediaToFixed2(minC, maxC) ==
    LET s == minC + maxC IN
    IF s % 2 = 0 THEN s \div 2
    ELSE IF SomaArredondaAcima(minC, maxC) THEN (s + 1) \div 2
    ELSE (s - 1) \div 2

-----------------------------------------------------------------------------
(* montarIndicadoresFornecedor                                             *)

ChavesRelatorios == <<"balancete", "contas_pagar", "razao">>

\* textosPorRelatorio[chave] || ""
TextoDoRelatorio(textosPorRelatorio, chave) ==
    IF chave \in DOMAIN textosPorRelatorio /\ ~Falsy(textosPorRelatorio[chave])
    THEN textosPorRelatorio[chave]
    ELSE <<>>

RECURSIVE SaldosEncontradosSemZero(_, _)
\* Mutant of SaldosEncontrados: the parsed number is tested for truthiness
\* (if (valorNum)) instead of against null, which drops a balance of 0.
SaldosEncontradosSemZero(linhasFornecedor, i) ==
    IF i > Len(linhasFornecedor) THEN <<>>
    ELSE LET linha == linhasFornecedor[i]
             resto == SaldosEncontradosSemZero(linhasFornecedor, i + 1)
         IN  IF Falsy(linha.ultimoNumero) THEN resto
             ELSE LET valorNum == parseValorMonetario(linha.ultimoNumero) IN
                  IF ~valorNum.nulo /\ valorNum.centavos # 0
                  THEN <<[ texto         |-> linha.ultimoNumero,
                           numero        |-> valorNum.centavos,
                           linhaOriginal |-> linha.linhaOriginal ]>> \o resto
                  ELSE resto

RECURSIVE SaldosEncontrados(_, _)
\* the loop over linhasFornecedor, from entry i on
SaldosEncontrados(linhasFornecedor, i) ==
    IF i > Len(linhasFornecedor) THEN <<>>
    ELSE LET linha == linhasFornecedor[i]
             resto == SaldosEncontrados(linhasFornecedor, i + 1)
         IN  IF Falsy(linha.ultimoNumero) THEN resto
             ELSE LET valorNum == parseValorMonetario(linha.ultimoNumero) IN
                  IF ~valorNum.nulo
                  THEN <<[ texto         |-> linha.ultimoNumero,
                           numero        |-> valorNum.centavos,
                           linhaOriginal |-> linha.linhaOriginal ]>> \o resto
                  ELSE resto

\* the body of the loop over chavesRelatorios, for one key
IndicadorDoRelatorio(fornecedorNome, textosPorRelatorio, chave) ==
    LET linhasFornecedor ==
            extrairLinhasFornecedor(
                TextoDoRelatorio(textosPorRelatorio, chave), fornecedorNome)
    IN  [ linhasFornecedor  |-> linhasFornecedor,
          saldosEncontrados |-> SaldosEncontrados(linhasFornecedor, 1) ]

RECURSIVE FlatNumeros(_, _, _)
\* todasChavesComSaldo.flatMap((k) => saldosNumericosPorRelatorio[k]): the
\* numbers of the keys that hold at least one, in the order of the keys
FlatNumeros(indicadores, chaves, i) ==
    IF i > Len(chaves) THEN <<>>
    ELSE LET saldos == indicadores[chaves[i]].saldosEncontrados
         IN  [j \in 1..Len(saldos) |-> saldos[j].numero]
                 \o FlatNumeros(indicadores, chaves, i + 1)

MinDe(valores) == CHOOSE v \in Range(valores) : \A w \in Range(valores) : v <= w

MaxDe(valores) == CHOOSE v \in Range(valores) : \A w \in Range(valores) : v >= w

DadosInsuficientes ==
    [ status    |-> "dados_insuficientes",
      descricao |-> "Não foi possível comparar saldos de forma automática com segurança." ]

SaldosIguais(valorReferencia) ==
    [ status    |-> "saldos_iguais",
      descricao |-> "Os saldos identificados automaticamente nos relatórios são praticamente iguais para o fornecedor.",
      valorReferenciaAproximado |-> valorReferencia ]

SaldosDiferentes ==
    [ status    |-> "saldos_diferentes",
      descricao |-> "Foram encontrados saldos numéricos diferentes entre os relatórios para este fornecedor." ]

\* Object.keys(saldosNumericosPorRelatorio): the keys with saldosEncontrados.length > 0
TodasChavesComSaldo(indicadores) ==
    SelectSeq(ChavesRelatorios,
              LAMBDA k : Len(indicadores[k].saldosEncontrados) > 0)

\* Mutant of AvaliacaoAutomaticaSaldo: one key with balances is enough
\* (>= 1 for >= 2).
AvaliacaoComUmaFonte(indicadores) ==
    LET todasChavesComSaldo == TodasChavesComSaldo(indicadores) IN
    IF Len(todasChavesComSaldo) >= 1
    THEN LET todosValores == FlatNumeros(indicadores, todasChavesComSaldo, 1)
             min == MinDe(todosValores)
             max == MaxDe(todosValores)
         IN  IF DiffAteDecimo(max, min)
             THEN SaldosIguais(MediaToFixed2(min, max))
             ELSE SaldosDiferentes
    ELSE DadosInsuficientes

\* "Avaliação automática simples dos saldos".  Every number is finite, so
\* the Number.isFinite test always passes.
AvaliacaoAutomaticaSaldo(indicadores) ==
    LET todasChavesComSaldo == TodasChavesComSaldo(indicadores) IN
    IF Len(todasChavesComSaldo) >= 2
    THEN LET todosValores == FlatNumeros(indicadores, todasChavesComSaldo, 1)
             min == MinDe(todosValores)
             max == MaxDe(todosValores)
         IN  IF DiffAteDecimo(max, min)
             THEN SaldosIguais(MediaToFixed2(min, max))
             ELSE SaldosDiferentes
    ELSE DadosInsuficientes

\* Mutant of montarIndicadoresFornecedor: the loop runs over the keys of the
\* input mapping (Object.keys(textosPorRelatorio)) instead of the fixed list.
montarIndicadoresDasChavesDadas(fornecedorNome, textosPorRelatorio) ==
    LET indicadoresFornecedor ==
            [chave \in DOMAIN textosPorRelatorio |->
                IndicadorDoRelatorio(fornecedorNome, textosPorRelatorio, chave)]
        conhecidos ==
            [chave \in Range(ChavesRelatorios) |->
                IF chave \in DOMAIN indicadoresFornecedor
                THEN indicadoresFornecedor[chave]
                ELSE [linhasFornecedor |-> <<>>, saldosEncontrados |-> <<>>]]
    IN  [ indicadoresFornecedor    |-> indicadoresFornecedor,
          avaliacaoAutomaticaSaldo |-> AvaliacaoAutomaticaSaldo(conhecidos) ]

montarIndicadoresFornecedor(fornecedorNome, textosPorRelatorio) ==
    LET indicadoresFornecedor ==
            [chave \in Range(ChavesRelatorios) |->
                IndicadorDoRelatorio(fornecedorNome, textosPorRelatorio, chave)]
    IN  [ indicadoresFornecedor    |-> indicadoresFornecedor,
          avaliacaoAutomaticaSaldo |->
              AvaliacaoAutomaticaSaldo(indicadoresFornecedor) ]

-----------------------------------------------------------------------------
(* Inputs shared by the specifications                                     *)

\* the sequences over S of length at most n
SeqAte(S, n) == UNION {[1..k -> S] : k \in 0..n}

RECURSIVE JoinLinhas(_, _)
\* the lines joined by the line terminator term
JoinLinhas(ls, term) ==
    IF Len(ls) = 0 THEN <<>>
    ELSE IF Len(ls) = 1 THEN ls[1]
    ELSE ls[1] \o term \o JoinLinhas(Tail(ls), term)

\* values of the variables a specification does not use
Ocioso == <<>>

-----------------------------------------------------------------------------
(* SpecNormalizar: normalizarTexto applied to a text, then to its result   *)

\* the longest text given to normalizarTexto
MaxLen == 4

\* a letter, a capital, an accented letter, a space, a punctuation mark,
\* a line break
AlfabetoNorm == {"a", "B", "U+00E1", " ", "-", "\n"}

InitNormalizar ==
    /\ pc = "entrada"
    /\ texto \in SeqAte(AlfabetoNorm, MaxLen)
    /\ fornecedor = NULL
    /\ simulacao = FALSE
    /\ textos = Ocioso
    /\ relatoriosProcessados = Ocioso
    /\ norm1 = Ocioso
    /\ norm2 = Ocioso
    /\ presente = FALSE
    /\ linhas = Ocioso
    /\ indic = Ocioso
    /\ cliente = FALSE
    /\ iaResposta = [pendente |-> TRUE]
    /\ log = <<>>
    /\ resultado = Ocioso

Normalizar1 ==
    /\ pc = "entrada"
    /\ norm1' = normalizarTexto(texto)
    /\ pc' = "normalizado"
    /\ UNCHANGED <<fornecedor, simulacao, texto, textos,
                   relatoriosProcessados, norm2,
                   presente, linhas, indic, cliente, iaResposta, log, resultado>>

Normalizar2 ==
    /\ pc = "normalizado"
    /\ norm2' = normalizarTexto(norm1)
    /\ pc' = "renormalizado"
    /\ UNCHANGED <<fornecedor, simulacao, texto, textos,
                   relatoriosProcessados, norm1,
                   presente, linhas, indic, cliente, iaResposta, log, resultado>>

NextNormalizar == Normalizar1 \/ Normalizar2

SpecNormalizar == InitNormalizar /\ [][NextNormalizar]_vars

EspacosSeguidos(s) == \E i \in 1..(Len(s) - 1) : s[i] = " " /\ s[i + 1] = " "

\* C4: normalizarTexto is idempotent, normalize(normalize(x)) = normalize(x),
\* and its result never holds two consecutive spaces.
C4_Idempotente ==
    /\ pc = "renormalizado" => norm2 = norm1
    /\ pc \in {"normalizado", "renormalizado"} => ~EspacosSeguidos(norm1)

-----------------------------------------------------------------------------
(* SpecLinhas: fornecedorExisteNaRazao and extrairLinhasFornecedor on the  *)
(* same vendor name and document                                           *)

\* the most lines a document of SpecLinhas holds
MaxLinhas == 3

\* "Comercial ABC Ltda": three significant tokens
FornComercial == <<"C", "o", "m", "e", "r", "c", "i", "a", "l", " ", "A", "B", "C", " ", "L", "t", "d", "a">>

\* "acme dist": two significant tokens
FornAcme == <<"a", "c", "m", "e", " ", "d", "i", "s", "t">>

\* "sa de": no token longer than two characters
FornCurto == <<"s", "a", " ", "d", "e">>

\* "-": normalizes to the empty string
FornTraco == <<"-">>

FornecedoresLinhas ==
    {FornComercial, FornAcme, FornCurto, FornTraco, <<>>, NULL}

\* the lines the documents are made of
LinhasPool ==
    { <<"C", "O", "M", "E", "R", "C", "I", "A", "L", " ", "A", "B", "C", " ", "L", "T", "D", "A", " ", "1", ".", "0", "0", "0", ",", "0", "0">>,
      <<"c", "o", "m", "e", "r", "c", "i", "a", "l", " ", "a", "b", "c", " ", "1", "0", "/", "2", "0", "2", "4", " ", "4", "2", ".", "1", "5", "1", ",", "9", "9">>,
      <<"a", "b", "c">>,
      <<"A", "c", "m", "e">>,
      <<"d", "i", "s", "t", " ", "2", ".", "5", "0", "0", ",", "0", "0">>,
      <<"a", "c", "m", "e", " ", "-", " ", "d", "i", "s", "t", " ", "7", ",", "0", "0">>,
      <<"c", "i", "a", " ", "s", "a", " ", "d", "e", " ", "c", "v">>,
      <<" ">> }

TerminadoresDeLinha == {<<"\n">>, <<"\r", "\n">>}

\* the documents of at most n lines; "" is the document of no line
Documentos(n) ==
    {<<>>} \cup
    { JoinLinhas(ls, term) :
        ls \in (SeqAte(LinhasPool, n) \ {<<>>}), term \in TerminadoresDeLinha }

InitLinhas ==
    /\ pc = "entrada"
    /\ fornecedor \in FornecedoresLinhas
    /\ simulacao = FALSE
    /\ texto \in Documentos(MaxLinhas) \cup {NULL}
    /\ textos = Ocioso
    /\ relatoriosProcessados = Ocioso
    /\ norm1 = Ocioso
    /\ norm2 = Ocioso
    /\ presente = FALSE
    /\ linhas = Ocioso
    /\ indic = Ocioso
    /\ cliente = FALSE
    /\ iaResposta = [pendente |-> TRUE]
    /\ log = <<>>
    /\ resultado = Ocioso

VerificarPresenca ==
    /\ pc = "entrada"
    /\ presente' = fornecedorExisteNaRazao(fornecedor, texto)
    /\ pc' = "verificado"
    /\ UNCHANGED <<fornecedor, simulacao, texto, textos,
                   relatoriosProcessados, norm1,
                   norm2, linhas, indic, cliente, iaResposta, log, resultado>>

ExtrairLinhas ==
    /\ pc = "verificado"
    /\ linhas' = extrairLinhasFornecedor(texto, fornecedor)
    /\ pc' = "extraido"
    /\ UNCHANGED <<fornecedor, simulacao, texto, textos,
                   relatoriosProcessados, norm1,
                   norm2, presente, indic, cliente, iaResposta, log, resultado>>

NextLinhas == VerificarPresenca \/ ExtrairLinhas

SpecLinhas == InitLinhas /\ [][NextLinhas]_vars

-----------------------------------------------------------------------------
(* SpecIndicadores: montarIndicadoresFornecedor on a vendor name and a     *)
(* mapping of report texts                                                 *)

\* the most lines the three known reports of a mapping hold together
MaxLinhasTotal == 3

\* the lines the report texts are made of
LinhasSaldo ==
    { <<"a", "c", "m", "e", " ", "d", "i", "s", "t", " ", "1", ".", "0", "0", "0", ",", "0", "0">>,
      <<"A", "c", "m", "e", " ", "D", "i", "s", "t", " ", "2", ".", "5", "0", "0", ",", "0", "0", " ", "1", ".", "0", "0", "0", ",", "0", "5">>,
      <<"A", "C", "M", "E", " ", "D", "I", "S", "T", " ", "-", " ", "1", ".", "0", "0", "0", ",", "1", "0">>,
      <<"a", "c", "m", "e", " ", "d", "i", "s", "t", " ", "0", ",", "0", "0">>,
      <<"a", "c", "m", "e", " ", "d", "i", "s", "t", " ", "s", "/", " ", "s", "a", "l", "d", "o">>,
      <<"o", "u", "t", "r", "o", " ", "1", ".", "0", "0", "0", ",", "0", "0">> }

\* the report texts of exactly n lines; "" is the one of no line
TextosDe(n) ==
    { JoinLinhas(ls, <<"\n">>) : ls \in [1..n -> LinhasSaldo] }

\* an unknown key and its text, which holds a vendor line with a balance
ChaveExtra == "extrato"

TextoExtra == <<"a", "c", "m", "e", " ", "d", "i", "s", "t", " ", "9", ".", "9", "9", "9", ",", "9", "9">>

FornecedoresIndicadores == {FornAcme, <<>>, NULL}

\* the mapping with the three texts.  A known key whose text is empty is
\* kept with "" (forma = "vazio"), kept with null (forma = "nulo") or left
\* out (forma = "ausente", "extra"); forma = "extra" adds the unknown key.
Mapeamento(tb, tc, tr, forma) ==
    LET completo == [k \in Range(ChavesRelatorios) \cup {ChaveExtra} |->
                        CASE k = "balancete"    -> tb
                          [] k = "contas_pagar" -> tc
                          [] k = "razao"        -> tr
                          [] OTHER              -> TextoExtra]
        chaves == { k \in DOMAIN completo :
                      IF k = ChaveExtra THEN forma = "extra"
                      ELSE ~(forma \in {"ausente", "extra"}
                               /\ completo[k] = <<>>) }
    IN  [k \in chaves |->
            IF completo[k] = <<>> /\ forma = "nulo" THEN NULL
            ELSE completo[k]]

InitIndicadores ==
    /\ pc = "entrada"
    /\ fornecedor \in FornecedoresIndicadores
    /\ simulacao = FALSE
    /\ \E nb \in 0..MaxLinhasTotal :
         \E nc \in 0..(MaxLinhasTotal - nb) :
           \E nr \in 0..(MaxLinhasTotal - nb - nc) :
             \E tb \in TextosDe(nb), tc \in TextosDe(nc), tr \in TextosDe(nr) :
               \E forma \in {"vazio", "nulo", "ausente", "extra"} :
                 textos = Mapeamento(tb, tc, tr, forma)
    /\ texto = Ocioso
    /\ relatoriosProcessados = Ocioso
    /\ norm1 = Ocioso
    /\ norm2 = Ocioso
    /\ presente = FALSE
    /\ linhas = Ocioso
    /\ indic = Ocioso
    /\ cliente = FALSE
    /\ iaResposta = [pendente |-> TRUE]
    /\ log = <<>>
    /\ resultado = Ocioso

MontarIndicadores ==
    /\ pc = "entrada"
    /\ indic' = montarIndicadoresFornecedor(fornecedor, textos)
    /\ pc' = "montado"
    /\ UNCHANGED <<fornecedor, simulacao, texto, textos,
                   relatoriosProcessados, norm1,
                   norm2, presente, linhas, cliente, iaResposta, log, resultado>>

NextIndicadores == MontarIndicadores

SpecIndicadores == InitIndicadores /\ [][NextIndicadores]_vars

-----------------------------------------------------------------------------
(* Claims checked under SpecLinhas                                         *)

\* the significant tokens of the vendor name of the state
TokensDoFornecedor == TokensAlvo(normalizarTexto(fornecedor))

\* the raw lines of the document of the state
LinhasDoTexto == IF Falsy(texto) THEN <<>> ELSE SplitLinhas(texto)

\* how many significant tokens occur in raw line i, once normalized
AchadosNaLinha(i) ==
    Cardinality({t \in 1..Len(TokensDoFornecedor) :
        Includes(normalizarTexto(LinhasDoTexto[i]), TokensDoFornecedor[t])})

NomeNoDocumento ==
    Includes(normalizarTexto(texto), normalizarTexto(fornecedor))

\* the case of C5: three significant tokens, a document of one line that
\* holds exactly two of them and not the whole normalized name
CasoDoisDeTres ==
    /\ Len(TokensDoFornecedor) = 3
    /\ Len(LinhasDoTexto) = 1
    /\ AchadosNaLinha(1) = 2
    /\ ~NomeNoDocumento

\* C5: the two thresholds are distinct. With three significant tokens, a
\* one-line document holding exactly two of them (score 2/3) and not the
\* normalized name is not "present" (below 0.70) but yields an extracted
\* line (at or above 0.60); a line holding all three is "present".
C5_LimiaresDistintos ==
    pc = "extraido" =>
        /\ CasoDoisDeTres => (presente = FALSE /\ Len(linhas) = 1)
        /\ ( /\ Len(TokensDoFornecedor) = 3
             /\ Len(LinhasDoTexto) = 1
             /\ AchadosNaLinha(1) = 3 ) => presente = TRUE

C5_Witness ==
    /\ pc = "extraido"
    /\ CasoDoisDeTres
    /\ presente = FALSE
    /\ Len(linhas) = 1
    /\ linhas[1].scoreMatch = [num |-> 2, den |-> 3]

\* C6 as stated: for a non-empty vendor name and a non-empty document,
\* fornecedorExisteNaRazao is true whenever the normalized name is a
\* substring of the normalized document, the name that normalizes to the
\* empty string included.
C6_SubstringSempre ==
    ( /\ pc \in {"verificado", "extraido"}
      /\ ~Falsy(fornecedor)
      /\ ~Falsy(texto)
      /\ NomeNoDocumento ) => presente = TRUE

\* C6 amended: for a non-empty vendor name and a non-empty document,
\* fornecedorExisteNaRazao is true whenever the normalized name is NOT
\* EMPTY and is a substring of the normalized document (also across a line
\* break, also when no token of the name is longer than two characters);
\* a name that normalizes to the empty string gives false.
C6_SubstringNaoVazia ==
    ( /\ pc \in {"verificado", "extraido"}
      /\ ~Falsy(fornecedor)
      /\ ~Falsy(texto) ) =>
        /\ ( /\ normalizarTexto(fornecedor) # <<>>
             /\ NomeNoDocumento ) => presente = TRUE
        /\ normalizarTexto(fornecedor) = <<>> => presente = FALSE

\* the name is found across a line break: no single line holds it, and no
\* line reaches the token score
C6_Witness ==
    /\ pc = "verificado"
    /\ ~Falsy(fornecedor)
    /\ ~Falsy(texto)
    /\ normalizarTexto(fornecedor) # <<>>
    /\ NomeNoDocumento
    /\ Len(LinhasDoTexto) = 2
    /\ \A i \in 1..2 :
          /\ ~Includes(normalizarTexto(LinhasDoTexto[i]),
                       normalizarTexto(fornecedor))
          /\ 10 * AchadosNaLinha(i) < 7 * Len(TokensDoFornecedor)
    /\ presente = TRUE

\* the indices of the raw lines whose token-overlap score (tokens found
\* over tokens of the name) is at least 0.60, in document order
LinhasAceitas ==
    LET ach == [i \in 1..Len(LinhasDoTexto) |-> AchadosNaLinha(i)] IN
    SelectSeq([i \in 1..Len(LinhasDoTexto) |-> i],
              LAMBDA i : /\ Len(TokensDoFornecedor) > 0
                         /\ 10 * ach[i] >= 6 * Len(TokensDoFornecedor))

\* C7: extrairLinhasFornecedor returns, in document order, one entry for
\* exactly the lines whose token-overlap score is at least 0.60; no entry
\* has a score below 0.60 and every score lies in [0,1].
C7_LinhasAcimaDoLimiar ==
    pc = "extraido" =>
        LET aceitas == LinhasAceitas IN
        /\ Len(linhas) = Len(aceitas)
        /\ \A j \in 1..Len(linhas) :
              /\ linhas[j].linhaOriginal = Trim(LinhasDoTexto[aceitas[j]])
              /\ linhas[j].linhaNormalizada =
                     normalizarTexto(LinhasDoTexto[aceitas[j]])
              /\ linhas[j].scoreMatch.den = Len(TokensDoFornecedor)
              /\ linhas[j].scoreMatch.num = AchadosNaLinha(aceitas[j])
              /\ 0 <= linhas[j].scoreMatch.num
              /\ linhas[j].scoreMatch.num <= linhas[j].scoreMatch.den
              /\ 10 * linhas[j].scoreMatch.num >= 6 * linhas[j].scoreMatch.den

\* two different lines are returned and a line between or around them is
\* left out
C7_Witness ==
    /\ pc = "extraido"
    /\ Len(linhas) = 2
    /\ linhas[1].linhaOriginal # linhas[2].linhaOriginal
    /\ Len(LinhasDoTexto) > Len(linhas)
    /\ \E i \in 1..Len(LinhasDoTexto) :
          /\ i \notin Range(LinhasAceitas)
          /\ AchadosNaLinha(i) > 0

-----------------------------------------------------------------------------
(* Claims checked under SpecIndicadores                                    *)

Indicadores == indic.indicadoresFornecedor

Avaliacao == indic.avaliacaoAutomaticaSaldo

ChavesConhecidas == Range(ChavesRelatorios)

\* the known sources that hold at least one parsed balance
FontesComSaldo ==
    {k \in ChavesConhecidas : Len(Indicadores[k].saldosEncontrados) >= 1}

\* every parsed balance of every known source, in cents
SaldosReunidos ==
    UNION { {Indicadores[k].saldosEncontrados[j].numero :
                j \in 1..Len(Indicadores[k].saldosEncontrados)} :
            k \in ChavesConhecidas }

MinReunido == CHOOSE v \in SaldosReunidos : \A w \in SaldosReunidos : v <= w

MaxReunido == CHOOSE v \in SaldosReunidos : \A w \in SaldosReunidos : v >= w

Veredictos == {"dados_insuficientes", "saldos_iguais", "saldos_diferentes"}

\* C1: a verdict other than dados_insuficientes requires parsed balances
\* in at least two distinct known sources; one source alone gives
\* dados_insuficientes however many balances it holds.
C1_DuasFontes ==
    pc = "montado" =>
        /\ Avaliacao.status \in Veredictos
        /\ Avaliacao.status # "dados_insuficientes"
              => Cardinality(FontesComSaldo) >= 2

\* one source holds several balances, the others none
C1_Witness ==
    /\ pc = "montado"
    /\ Cardinality(FontesComSaldo) = 1
    /\ \E k \in FontesComSaldo : Len(Indicadores[k].saldosEncontrados) >= 2
    /\ Avaliacao.status = "dados_insuficientes"

\* C2: with parsed balances in at least two sources the verdict is
\* saldos_iguais if and only if pooled max - pooled min <= 0.10 currency
\* units (10 cents), saldos_diferentes otherwise, never dados_insuficientes.
C2_IguaisSeDentroDaTolerancia ==
    (pc = "montado" /\ Cardinality(FontesComSaldo) >= 2) =>
        Avaliacao.status = IF MaxReunido - MinReunido <= 10
                           THEN "saldos_iguais" ELSE "saldos_diferentes"

\* C3: the verdict carries valorReferenciaAproximado if and only if it is
\* saldos_iguais; the value is the pooled (min + max) / 2 rounded to two
\* decimal places, and for the pooled balances 1000.00 and 1000.05 it is
\* 1000.03.
C3_ReferenciaArredondada ==
    pc = "montado" =>
        /\ ("valorReferenciaAproximado" \in DOMAIN Avaliacao)
              <=> (Avaliacao.status = "saldos_iguais")
        /\ Avaliacao.status = "saldos_iguais" =>
              /\ 2 * Avaliacao.valorReferenciaAproximado >= MinReunido + MaxReunido - 1
              /\ 2 * Avaliacao.valorReferenciaAproximado <= MinReunido + MaxReunido + 1
        /\ ( /\ Cardinality(FontesComSaldo) >= 2
             /\ SaldosReunidos = {100000, 100005} ) =>
              /\ Avaliacao.status = "saldos_iguais"
              /\ Avaliacao.valorReferenciaAproximado = 100003

\* the mapping of the state without its unknown keys
TextosConhecidos == [k \in DOMAIN textos \cap ChavesConhecidas |-> textos[k]]

SemTexto(k) == k \notin DOMAIN textos \/ Falsy(textos[k])

\* C8: the result is well formed on degenerate input: an indicator for
\* exactly the three known keys; empty lists for a key that is missing or
\* has no text; unknown keys change nothing; a null or empty vendor name
\* gives empty lists everywhere and dados_insuficientes.
C8_BemFormado ==
    pc = "montado" =>
        /\ DOMAIN Indicadores = ChavesConhecidas
        /\ Avaliacao.status \in Veredictos
        /\ \A k \in ChavesConhecidas :
              SemTexto(k) =>
                  /\ Indicadores[k].linhasFornecedor = <<>>
                  /\ Indicadores[k].saldosEncontrados = <<>>
        /\ DOMAIN textos # DOMAIN TextosConhecidos =>
              indic = montarIndicadoresFornecedor(fornecedor, TextosConhecidos)
        /\ Falsy(fornecedor) =>
              /\ \A k \in ChavesConhecidas :
                    /\ Indicadores[k].linhasFornecedor = <<>>
                    /\ Indicadores[k].saldosEncontrados = <<>>
              /\ Avaliacao.status = "dados_insuficientes"

\* an unknown key with a vendor balance, a missing known key, and two known
\* sources whose balances the verdict compares
C8_Witness ==
    /\ pc = "montado"
    /\ ChaveExtra \in DOMAIN textos
    /\ \E k \in ChavesConhecidas : k \notin DOMAIN textos
    /\ Cardinality(FontesComSaldo) = 2
    /\ Avaliacao.status = "saldos_iguais"

\* the entries of a LineMatch list that yield a balance
ComSaldo(linhasFornecedor) ==
    SelectSeq(linhasFornecedor,
              LAMBDA l : /\ l.ultimoNumero # NULL
                         /\ ~parseValorMonetario(l.ultimoNumero).nulo)

\* C9: ultimoNumero is the last of numerosMonetarios (null exactly when
\* there is none) and saldosEncontrados holds, in line order, one entry
\* {texto = ultimoNumero, numero = its parsed value, linhaOriginal} for each
\* line whose ultimoNumero is non-null and parses, and nothing else; a last
\* value "0,00" contributes the balance 0.
C9_SaldosDoUltimoValor ==
    pc = "montado" =>
        \A k \in ChavesConhecidas :
            LET lf == Indicadores[k].linhasFornecedor
                se == Indicadores[k].saldosEncontrados
                cs == ComSaldo(lf)
            IN  /\ \A i \in 1..Len(lf) :
                      /\ (lf[i].ultimoNumero = NULL)
                            <=> (lf[i].numerosMonetarios = <<>>)
                      /\ lf[i].numerosMonetarios # <<>> =>
                            lf[i].ultimoNumero =
                                lf[i].numerosMonetarios[Len(lf[i].numerosMonetarios)]
                      /\ lf[i].ultimoNumero = <<"0", ",", "0", "0">> =>
                            \E j \in 1..Len(se) :
                                /\ se[j].numero = 0
                                /\ se[j].linhaOriginal = lf[i].linhaOriginal
                /\ Len(se) = Len(cs)
                /\ \A j \in 1..Len(se) :
                      /\ se[j].texto = cs[j].ultimoNumero
                      /\ se[j].linhaOriginal = cs[j].linhaOriginal
                      /\ se[j].numero =
                             parseValorMonetario(cs[j].ultimoNumero).centavos
                      /\ se[j].texto = <<"1", ".", "0", "0", "0", ",", "0", "5">> => se[j].numero = 100005

\* one source with a line of two values (the last one taken), a line with
\* last value "0,00" and a line without any value
C9_Witness ==
    /\ pc = "montado"
    /\ \E k \in ChavesConhecidas :
          LET lf == Indicadores[k].linhasFornecedor
              se == Indicadores[k].saldosEncontrados
          IN  /\ \E i \in 1..Len(lf) : Len(lf[i].numerosMonetarios) = 2
              /\ \E i \in 1..Len(lf) : lf[i].ultimoNumero = NULL
              /\ \E j \in 1..Len(se) :
                    se[j].texto = <<"0", ",", "0", "0">> /\ se[j].numero = 0
              /\ Len(se) = 2

-----------------------------------------------------------------------------
(* realizarConciliacao                                                     *)
(*                                                                         *)
(* relatoriosProcessados is a mapping from report key to the fields the    *)
(* function reads: nomeOriginal and, of the "processado" object, tipo,     *)
(* tamanhoTexto (a number), preview and conteudoTexto (strings or NULL).   *)
(* A JavaScript object that may be null is a record; the null one is       *)
(* ObjNulo.  A JavaScript value of any type (the parsed answer) is a       *)
(* record [tipo, valor].                                                   *)

ObjNulo == [nulo |-> TRUE]

\* x || alternativa, for strings
Ou(x, alternativa) == IF Falsy(x) THEN alternativa ELSE x

\* relatoriosProcessados?.[chave]?.processado?.[campo]; undefined is NULL
CampoProcessado(rel, chave, campo) ==
    IF chave \in DOMAIN rel THEN rel[chave][campo] ELSE NULL

\* Mutant of RazaoTextoCompleto: the gate reads only the preview sample of
\* the ledger, not its full text.
RazaoSoPreview(rel) == Ou(CampoProcessado(rel, "razao", "preview"), <<>>)

\* razaoProcessado.conteudoTexto || razaoProcessado.preview || ""
RazaoTextoCompleto(rel) ==
    Ou(CampoProcessado(rel, "razao", "conteudoTexto"),
       Ou(CampoProcessado(rel, "razao", "preview"), <<>>))

\* textosCompletos
TextosCompletos(rel) ==
    [k \in {"razao", "balancete", "contas_pagar"} |->
        IF k = "razao" THEN RazaoTextoCompleto(rel)
        ELSE Ou(CampoProcessado(rel, k, "conteudoTexto"), <<>>)]

\* relatoriosResumidos
RelatoriosResumidos(rel) ==
    [k \in DOMAIN rel |->
        [ nomeOriginal   |-> Ou(rel[k].nomeOriginal, NULL),
          tipo           |-> Ou(rel[k].tipo, NULL),
          tamanhoTexto   |-> IF rel[k].tamanhoTexto = 0 THEN NULL
                             ELSE rel[k].tamanhoTexto,
          preview        |-> Ou(rel[k].preview, NULL),
          trechoConteudo |->
              IF Falsy(rel[k].conteudoTexto) THEN NULL
              ELSE SubSeq(rel[k].conteudoTexto, 1,
                          IF Len(rel[k].conteudoTexto) < 8000
                          THEN Len(rel[k].conteudoTexto) ELSE 8000) ]]

EntradaIA(fornecedorNome, rel, indicadores) ==
    [ nulo                     |-> FALSE,
      fornecedor               |-> fornecedorNome,
      relatorios               |-> RelatoriosResumidos(rel),
      indicadoresFornecedor    |-> indicadores.indicadoresFornecedor,
      avaliacaoAutomaticaSaldo |-> indicadores.avaliacaoAutomaticaSaldo ]

\* JavaScript values
JsNull == [tipo |-> "null"]

JsNumber(n) == [tipo |-> "number", valor |-> n]

JsBoolean(b) == [tipo |-> "boolean", valor |-> b]

JsString(t) == [tipo |-> "string", valor |-> t]

JsObject(campos) == [tipo |-> "object", valor |-> campos]

JsArray(itens) == [tipo |-> "array", valor |-> itens]

\* the truth value of v in a condition
Truthy(v) ==
    CASE v.tipo = "null"    -> FALSE
      [] v.tipo = "number"  -> v.valor # 0
      [] v.tipo = "boolean" -> v.valor
      [] v.tipo = "string"  -> v.valor # <<>>
      [] v.tipo = "object"  -> TRUE
      [] v.tipo = "array"   -> TRUE

\* the object returned when OPENAI_API_KEY is not configured
ResultadoSemChave(fornecedorNome, simul) ==
    [ fornecedor |-> fornecedorNome,
      simulacao  |-> simul,
      status     |-> "erro_openai",
      mensagem   |-> "OPENAI_API_KEY não configurada. Adicione sua chave no arquivo .env para habilitar a conciliação com IA." ]

\* estruturaJson of the local diagnosis; a template literal is the sequence
\* of its pieces, the vendor name in between
EstruturaLocal(fornecedorNome) ==
    JsObject(
      [ resumoExecutivo |->
            << "Não foram encontrados lançamentos do fornecedor \"",
               fornecedorNome, "\" na razão enviada." >>,
        composicaoSaldo |->
            << [ fonte         |-> "razao",
                 descricao     |-> "Razão de fornecedores analisada, porém o fornecedor informado não consta em nenhum lançamento.",
                 valorEstimado |-> 0,
                 observacoes   |-> "Verifique se o relatório de razão está filtrado corretamente para o período e empresa, ou se há erro no nome do fornecedor." ] >>,
        divergencias |->
            << [ descricao        |-> "Fornecedor informado não aparece em nenhum lançamento da razão de fornecedores.",
                 tipo             |-> "fornecedor_sem_lancamento",
                 referencias      |-> << <<"Fornecedor: ", fornecedorNome>>,
                                         <<"Relatório: Razão de Fornecedores">> >>,
                 nivelCriticidade |-> "alta" ] >>,
        pagamentosOrfaos |-> <<>>,
        titulosVencidosSemContrapartida |-> <<>>,
        passosRecomendados |->
            << "Conferir se o nome do fornecedor está idêntico ao cadastrado no sistema/contabilidade.",
               "Validar se o relatório de razão foi emitido para o CNPJ correto e para o período desejado.",
               "Caso o fornecedor realmente devesse ter lançamentos, solicitar ao responsável a emissão de um novo relatório de razão filtrado corretamente." >>,
        observacoesGerais |->
            "Como o fornecedor não foi encontrado na amostra do relatório de razão, não é possível prosseguir com a conciliação detalhada até que os relatórios estejam consistentes." ])

\* the object returned when the vendor is not in the ledger
ResultadoLocal(fornecedorNome, simul) ==
    [ fornecedor    |-> fornecedorNome,
      simulacao     |-> simul,
      status        |-> "conciliacao_gerada",
      modelo        |-> "regra_local_sem_ia",
      entradaIA     |-> ObjNulo,
      estrutura     |-> EstruturaLocal(fornecedorNome),
      respostaBruta |-> "Fornecedor não encontrado na razão. Diagnóstico gerado sem chamada ao modelo de IA." ]

\* The message contents the service is taken to answer with.
ConteudoObjeto == <<"{", "}">>

ConteudoObjetoComEspacos == <<" ", "{", "}", "\n">>

ConteudoLista == <<"[", "]">>

ConteudoNull == <<"n", "u", "l", "l">>

ConteudoZero == <<"0">>

ConteudoFalse == <<"f", "a", "l", "s", "e">>

ConteudoTextoVazio == <<"\"", "\"">>

ConteudoProsa == <<"S", "a", "l", "d", "o", "s", " ", "c", "o", "n", "f", "e", "r", "e", "m", ".">>

\* JSON.parse, on the trimmed contents above: the value, or a SyntaxError
JSONParse(rawContent) ==
    CASE rawContent = ConteudoObjeto     -> [lanca |-> FALSE, valor |-> JsObject(<<>>)]
      [] rawContent = ConteudoLista      -> [lanca |-> FALSE, valor |-> JsArray(<<>>)]
      [] rawContent = ConteudoNull       -> [lanca |-> FALSE, valor |-> JsNull]
      [] rawContent = ConteudoZero       -> [lanca |-> FALSE, valor |-> JsNumber(0)]
      [] rawContent = ConteudoFalse      -> [lanca |-> FALSE, valor |-> JsBoolean(FALSE)]
      [] rawContent = ConteudoTextoVazio -> [lanca |-> FALSE, valor |-> JsString(<<>>)]
      [] rawContent = ConteudoProsa      -> [lanca |-> TRUE]
      [] rawContent = <<>>               -> [lanca |-> TRUE]

\* what the awaited call can end in: it throws an error with a message, or
\* it returns a completion whose first choice has the given message content
\* (NULL: there is no choice, no message or no content)
RespostasIA ==
    { [lanca |-> TRUE, mensagem |-> "Request timed out."] }
      \cup { [lanca |-> FALSE, content |-> c] :
                c \in {ConteudoObjeto, ConteudoObjetoComEspacos, ConteudoLista,
                       ConteudoNull, ConteudoZero, ConteudoFalse,
                       ConteudoTextoVazio, ConteudoProsa, <<>>, NULL} }

\* completion.choices?.[0]?.message?.content?.trim() || ""
RawContent(resposta) ==
    IF resposta.content = NULL THEN <<>> ELSE Trim(resposta.content)

\* the object returned after the call to the reasoning service
ResultadoIA(fornecedorNome, simul, entradaIA, resposta) ==
    IF resposta.lanca
    THEN [ fornecedor |-> fornecedorNome,
           simulacao  |-> simul,
           status     |-> "erro_openai",
           mensagem   |-> "Falha ao gerar conciliação com IA. Veja logs no servidor.",
           detalhe    |-> resposta.mensagem ]
    ELSE LET rawContent    == RawContent(resposta)
             analise       == JSONParse(rawContent)
             estruturaJson == IF analise.lanca THEN JsNull ELSE analise.valor
         IN  [ fornecedor    |-> fornecedorNome,
               simulacao     |-> simul,
               status        |-> IF Truthy(estruturaJson)
                                 THEN "conciliacao_gerada"
                                 ELSE "conciliacao_texto",
               modelo        |-> "gpt-4.1-mini",
               entradaIA     |-> entradaIA,
               estrutura     |-> estruturaJson,
               respostaBruta |-> rawContent ]

-----------------------------------------------------------------------------
(* SpecConciliacao: one run of realizarConciliacao.  The run is one        *)
(* synchronous stretch up to the await of the service call, and one after  *)
(* it; log records the calls the stretch makes, in order.                  *)

TextosCurtos == LinhasSaldo \cup {<<>>, NULL}

RelatoriosPossiveis ==
    { [k \in chaves |->
          [ nomeOriginal  |-> IF k = "extrato" THEN NULL
                              ELSE <<"r", ".", "p", "d", "f">>,
            tipo          |-> IF k = "extrato" THEN NULL ELSE <<"p", "d", "f">>,
            tamanhoTexto  |-> IF k = "razao" /\ rz # NULL THEN Len(rz)
                              ELSE IF k = "balancete" THEN Len(bl) ELSE 0,
            conteudoTexto |-> IF k = "razao" THEN rz
                              ELSE IF k = "balancete" THEN bl ELSE NULL,
            preview       |-> IF k = "razao" THEN pv ELSE NULL ]] :
        rz \in TextosCurtos, pv \in {NULL, <<"a", "c", "m", "e", " ", "d", "i", "s", "t">>},
        bl \in LinhasSaldo,
        chaves \in {{}, {"razao"}, {"razao", "balancete"},
                    {"razao", "balancete", "extrato"}} }

InitConciliacao ==
    /\ pc = "inicio"
    /\ fornecedor \in {FornAcme, FornCurto, NULL}
    /\ simulacao \in BOOLEAN
    /\ relatoriosProcessados \in RelatoriosPossiveis
    /\ cliente \in BOOLEAN
    /\ texto = Ocioso
    /\ textos = Ocioso
    /\ norm1 = Ocioso
    /\ norm2 = Ocioso
    /\ presente = FALSE
    /\ linhas = Ocioso
    /\ indic = Ocioso
    /\ iaResposta = [pendente |-> TRUE]
    /\ log = <<>>
    /\ resultado = Ocioso

\* Each action is one stretch of the function, in the order of the lines;
\* pc says which stretch comes next, and every stretch that makes one of
\* the calls of interest appends the call to log as it makes it.

\* lines 302-313: getOpenAIClient() returns null, the run ends at once
SemCliente ==
    /\ pc = "inicio"
    /\ ~cliente
    /\ log' = Append(log, "getOpenAIClient")
    /\ resultado' = ResultadoSemChave(fornecedor, simulacao)
    /\ pc' = "fim"
    /\ UNCHANGED <<fornecedor, simulacao, texto, textos,
                   relatoriosProcessados, norm1,
                   norm2, presente, linhas, indic, cliente, iaResposta>>

\* lines 302-305: getOpenAIClient() returns a client, the run goes on
ComCliente ==
    /\ pc = "inicio"
    /\ cliente
    /\ log' = Append(log, "getOpenAIClient")
    /\ pc' = "portao"
    /\ UNCHANGED <<fornecedor, simulacao, texto, textos,
                   relatoriosProcessados, norm1, norm2, presente, linhas,
                   indic, cliente, iaResposta, resultado>>

\* lines 316-372: the gate is false, the local diagnosis is returned
FornecedorAusente ==
    /\ pc = "portao"
    /\ ~fornecedorExisteNaRazao(fornecedor,
                                RazaoTextoCompleto(relatoriosProcessados))
    /\ presente' = FALSE
    /\ log' = Append(log, "fornecedorExisteNaRazao")
    /\ resultado' = ResultadoLocal(fornecedor, simulacao)
    /\ pc' = "fim"
    /\ UNCHANGED <<fornecedor, simulacao, texto, textos,
                   relatoriosProcessados, norm1,
                   norm2, linhas, indic, cliente, iaResposta>>

\* lines 316-325: the gate is true, the run goes on
FornecedorPresente ==
    /\ pc = "portao"
    /\ fornecedorExisteNaRazao(fornecedor,
                               RazaoTextoCompleto(relatoriosProcessados))
    /\ presente' = TRUE
    /\ log' = Append(log, "fornecedorExisteNaRazao")
    /\ pc' = "indicadores"
    /\ UNCHANGED <<fornecedor, simulacao, texto, textos,
                   relatoriosProcessados, norm1, norm2, linhas, indic,
                   cliente, iaResposta, resultado>>

\* lines 376-410: the summaries, the full texts and the indicators
ResumosEIndicadores ==
    /\ pc = "indicadores"
    /\ indic' = montarIndicadoresFornecedor(
                    fornecedor, TextosCompletos(relatoriosProcessados))
    /\ log' = Append(log, "montarIndicadoresFornecedor")
    /\ pc' = "chamada"
    /\ UNCHANGED <<fornecedor, simulacao, texto, textos,
                   relatoriosProcessados, norm1, norm2, presente, linhas,
                   cliente, iaResposta, resultado>>

\* lines 412-530: the prompt is built and the request is sent and awaited
ChamarIA ==
    /\ pc = "chamada"
    /\ log' = Append(log, "openai.chat.completions.create")
    /\ pc' = "aguardando_ia"
    /\ UNCHANGED <<fornecedor, simulacao, texto, textos,
                   relatoriosProcessados, norm1, norm2, presente, linhas,
                   indic, cliente, iaResposta, resultado>>

\* lines 522-562: the awaited request settles, with an answer or an error
RespostaDaIA ==
    /\ pc = "aguardando_ia"
    /\ \E resposta \in RespostasIA :
          /\ iaResposta' = resposta
          /\ resultado' =
                 ResultadoIA(fornecedor, simulacao,
                             EntradaIA(fornecedor, relatoriosProcessados, indic),
                             resposta)
    /\ pc' = "fim"
    /\ UNCHANGED <<fornecedor, simulacao, texto, textos,
                   relatoriosProcessados, norm1,
                   norm2, presente, linhas, indic, cliente, log>>

NextConciliacao ==
    \/ SemCliente
    \/ ComCliente
    \/ FornecedorAusente
    \/ FornecedorPresente
    \/ ResumosEIndicadores
    \/ ChamarIA
    \/ RespostaDaIA

\* The synchronous code runs on: from every position before the await the
\* function takes its next stretch (it has no loop but the bounded loops
\* over the report keys and the lines).  Nothing is assumed of the awaited
\* request: the code sets no timeout and no abort on it, so a run may stay
\* at "aguardando_ia" for ever.
ProssegueLocal ==
    /\ pc \in {"inicio", "portao", "indicadores", "chamada"}
    /\ pc' \in {"portao", "indicadores", "chamada", "aguardando_ia", "fim"}

SpecConciliacao ==
    InitConciliacao /\ [][NextConciliacao]_vars /\ WF_pc(ProssegueLocal)

-----------------------------------------------------------------------------
(* Claim checked under SpecConciliacao                                     *)

\* the ledger text of the run: conteudoTexto, else preview, else ""
TextoDaRazao ==
    IF "razao" \notin DOMAIN relatoriosProcessados THEN <<>>
    ELSE IF ~Falsy(relatoriosProcessados["razao"].conteudoTexto)
         THEN relatoriosProcessados["razao"].conteudoTexto
    ELSE IF ~Falsy(relatoriosProcessados["razao"].preview)
         THEN relatoriosProcessados["razao"].preview
    ELSE <<>>

Chamou(f) == \E i \in 1..Len(log) : log[i] = f

\* f was called, and g only after it
Antes(f, g) ==
    \E i \in 1..Len(log) :
        log[i] = f /\ \A j \in 1..Len(log) : log[j] = g => i < j

\* the gate is respected in the calls made so far and in the result
PortaoRespeitado ==
    /\ (cliente /\ ~fornecedorExisteNaRazao(fornecedor, TextoDaRazao)) =>
          /\ ~Chamou("montarIndicadoresFornecedor")
          /\ ~Chamou("openai.chat.completions.create")
          /\ pc = "fim" =>
                /\ resultado.status = "conciliacao_gerada"
                /\ resultado.modelo = "regra_local_sem_ia"
                /\ resultado.entradaIA = ObjNulo
    /\ Chamou("montarIndicadoresFornecedor") =>
          /\ Antes("fornecedorExisteNaRazao", "montarIndicadoresFornecedor")
          /\ presente = TRUE
          /\ fornecedorExisteNaRazao(fornecedor, TextoDaRazao)
    /\ Chamou("openai.chat.completions.create") =>
          Antes("montarIndicadoresFornecedor", "openai.chat.completions.create")
    /\ pc = "fim" =>
          resultado.status \in {"erro_openai", "conciliacao_gerada",
                                "conciliacao_texto"}

\* a run waits for the reasoning service only with a client and after a
\* true gate; without a client or with a false gate it never waits
SoEsperaAposPortao ==
    pc = "aguardando_ia" =>
        /\ cliente
        /\ fornecedorExisteNaRazao(fornecedor, TextoDaRazao)
        /\ Chamou("openai.chat.completions.create")

\* C10 as stated: with a client configured and the vendor not present in
\* the ledger text, neither montarIndicadoresFornecedor nor the reasoning
\* service is ever called and the run ends with the local result; the
\* indicators and the service call happen only after the gate returned
\* true, in that order; every run ends, with one of the three statuses.
C10_PortaoAntesDeTudo == []PortaoRespeitado /\ <>(pc = "fim")

\* C10 amended: the gate and the order of the calls as stated; every run
\* that ends has one of the three statuses; a run with no client or with
\* a false gate ends, and any other run ends or is left waiting for the
\* reasoning service, whose request the code bounds by no timeout.
C10_PortaoAntesSeResponde ==
    /\ []PortaoRespeitado
    /\ []SoEsperaAposPortao
    /\ <>(pc = "fim" \/ pc = "aguardando_ia")

\* a finished run that stopped at the gate although the ledger has text
C10_Witness ==
    /\ pc = "fim"
    /\ cliente
    /\ TextoDaRazao # <<>>
    /\ fornecedor # NULL
    /\ presente = FALSE
    /\ log = <<"getOpenAIClient", "fornecedorExisteNaRazao">>
    /\ resultado.modelo = "regra_local_sem_ia"

=============================================================================
